---- MODULE Spec2Model ----
(***************************************************************************)
(* Fluid MCP server: the numeric formatting helpers, the provider cache    *)
(* and the tool handlers, as state machines.                               *)
(*                                                                         *)
(*   SpecNum  applies the pure helpers of utils/formatting to inputs drawn *)
(*            from bounded sets.                                           *)
(*   Spec     runs tool invocations against the provider cache and an      *)
(*            RPC endpoint whose calls may return or fail.                 *)
(*   SpecTools  loads the server (registration, connect) and then runs     *)
(*            the handlers of all tool groups and the chains resource.     *)
(***************************************************************************)
EXTENDS Integers, Sequences, FiniteSets, TLC

VARIABLES
    fn,             \* SpecNum: the helper being applied ("none" under Spec)
    argv,           \* SpecNum: its arguments, a tuple
    ret,            \* SpecNum: its result once computed, undefined before
    providerCache,  \* provider.ts: Map cacheKey -> provider
    constructed,    \* every JsonRpcProvider constructed so far, in order
    inv,            \* the tool invocations, one record per slot
    server          \* index.ts: the McpServer and what is registered with it

numVars  == <<fn, argv, ret>>
toolVars == <<providerCache, constructed, inv, server>>
vars     == <<fn, argv, ret, providerCache, constructed, inv, server>>

(***************************************************************************)
(* Bounds                                                                  *)
(***************************************************************************)
\* width of the machine integer standing in for the 256 bits of a uint256
IntWidth == 8
\* decimal digits of the exchange-price scale standing in for the 12 of 1e12
PrecisionDigits == 1
\* |shares| and |exchangePrice| range
MaxShares == 24
MaxPrice == 24
\* basis points 0..MaxBp are formatted, and the documented examples
MaxBp == 1300

(***************************************************************************)
(* utils/formatting: text helpers                                          *)
(***************************************************************************)
Abs(x) == IF x < 0 THEN -x ELSE x

\* bigint "/" : the quotient truncated toward zero
BigIntDiv(a, b) ==
    IF (a < 0) = (b < 0) THEN Abs(a) \div Abs(b) ELSE -(Abs(a) \div Abs(b))

DigitChars == <<"0", "1", "2", "3", "4", "5", "6", "7", "8", "9">>

CharAt(s, i) == SubSeq(s, i, i)

IsDigit(c) == \E d \in 1..10 : DigitChars[d] = c

DigitValue(c) == (CHOOSE d \in 1..10 : DigitChars[d] = c) - 1

RECURSIVE ParseDigits(_)
\* the value of a run of decimal digits ("" is 0)
ParseDigits(s) ==
    IF Len(s) = 0 THEN 0
    ELSE 10 * ParseDigits(SubSeq(s, 1, Len(s) - 1)) + DigitValue(CharAt(s, Len(s)))

\* index of the first "." of s, 0 when there is none
DotIndex(s) ==
    IF \E i \in 1..Len(s) : CharAt(s, i) = "."
    THEN CHOOSE i \in 1..Len(s) :
            CharAt(s, i) = "." /\ \A j \in 1..(i - 1) : CharAt(s, j) # "."
    ELSE 0

(***************************************************************************)
(* JavaScript numbers, as far as the percentage formatters use them: a     *)
(* value is the exact fraction num/den (den a power of ten or the divisor  *)
(* of one division of integers).                                           *)
(***************************************************************************)
\* x / y on two integers
NumberDiv(x, y) == [num |-> x, den |-> y]

RECURSIVE PadDigits(_, _)
\* the k low decimal digits of n >= 0, leading zeros kept
PadDigits(n, k) ==
    IF k = 0 THEN "" ELSE PadDigits(n \div 10, k - 1) \o DigitChars[(n % 10) + 1]

\* Number.prototype.toFixed(2) of x >= 0: the integer n with n/100 closest to
\* x, the larger one on a tie, printed with exactly two fraction digits
ToFixed2(x) ==
    LET n == (2 * 100 * x.num + x.den) \div (2 * x.den)
    IN  ToString(n \div 100) \o "." \o PadDigits(n % 100, 2)

RECURSIVE Pow10(_)
Pow10(k) == IF k = 0 THEN 1 ELSE 10 * Pow10(k - 1)

\* parseFloat of a text of digits with an optional "." and fraction digits
ParseFloat(s) ==
    LET dot == DotIndex(s)
    IN  IF dot = 0
        THEN [num |-> ParseDigits(s), den |-> 1]
        ELSE [num |-> ParseDigits(SubSeq(s, 1, dot - 1)) * Pow10(Len(s) - dot)
                        + ParseDigits(SubSeq(s, dot + 1, Len(s))),
              den |-> Pow10(Len(s) - dot)]

RECURSIVE Shortest(_)
\* the same value with no factor of ten left in the denominator
Shortest(x) ==
    IF x.den > 1 /\ x.num % 10 = 0
    THEN Shortest([num |-> x.num \div 10, den |-> x.den \div 10])
    ELSE x

RECURSIVE Log10(_)
Log10(d) == IF d <= 1 THEN 0 ELSE 1 + Log10(d \div 10)

\* Number::toString of a decimal fraction >= 0: the shortest digits that
\* denote it, no fraction part when it is an integer
NumberToString(x) ==
    LET y == Shortest(x)
    IN  IF y.den = 1 THEN ToString(y.num)
        ELSE ToString(y.num \div y.den) \o "." \o PadDigits(y.num % y.den, Log10(y.den))

\* `${parseFloat(pct.toFixed(2))}%` without the parseFloat: zeros are kept
formatVaultPercent_keepZeros(basisPoints) ==
    LET pct == NumberDiv(basisPoints, 100)
    IN  ToFixed2(pct) \o "%"

formatVaultPercent(basisPoints) ==
    LET pct == NumberDiv(basisPoints, 100)
    IN  NumberToString(ParseFloat(ToFixed2(pct))) \o "%"

\* Number(rateBps) of a bigint within the safe-integer range is the integer
formatRateToAPY(rateBps) ==
    LET pct == NumberDiv(rateBps, 100)
    IN  NumberToString(ParseFloat(ToFixed2(pct))) \o "%"

(***************************************************************************)
(* utils/formatting: integer helpers                                       *)
(***************************************************************************)
RECURSIVE Pow2(_)
Pow2(k) == IF k = 0 THEN 1 ELSE 2 * Pow2(k - 1)

TWO_POW_256 == Pow2(IntWidth)

\* the comparison with MAX_INT256 off by one: 2^255 - 1 itself is wrapped
decodeInt256_offByOne(raw) ==
    LET MAX_INT256 == (TWO_POW_256 \div 2) - 1
    IN  IF raw >= MAX_INT256 THEN raw - TWO_POW_256 ELSE raw

\* the wrap by 2^256 - 1 instead of 2^256
decodeInt256_wrongModulus(raw) ==
    LET MAX_INT256 == (TWO_POW_256 \div 2) - 1
    IN  IF raw > MAX_INT256 THEN raw - (TWO_POW_256 - 1) ELSE raw

decodeInt256(raw) ==
    LET MAX_INT256 == (TWO_POW_256 \div 2) - 1
    IN  IF raw > MAX_INT256 THEN raw - TWO_POW_256 ELSE raw

EXCHANGE_PRICE_PRECISION == Pow10(PrecisionDigits)

\* the signed product divided directly, rounding toward minus infinity
sharesToTokenAmount_floor(shares, exchangePrice) ==
    IF shares = 0 \/ exchangePrice = 0 THEN 0
    ELSE (shares * exchangePrice) \div EXCHANGE_PRICE_PRECISION

\* the sign of shares not put back on the result
sharesToTokenAmount_abs(shares, exchangePrice) ==
    IF shares = 0 \/ exchangePrice = 0 THEN 0
    ELSE LET absShares == IF shares < 0 THEN -shares ELSE shares
         IN  BigIntDiv(absShares * exchangePrice, EXCHANGE_PRICE_PRECISION)

sharesToTokenAmount(shares, exchangePrice) ==
    IF shares = 0 \/ exchangePrice = 0 THEN 0
    ELSE LET absShares == IF shares < 0 THEN -shares ELSE shares
             absAmount == BigIntDiv(absShares * exchangePrice, EXCHANGE_PRICE_PRECISION)
         IN  IF shares < 0 THEN -absAmount ELSE absAmount

(***************************************************************************)
(* JavaScript values that may be undefined are a sequence: <<>> is         *)
(* undefined, <<v>> is the value v.                                        *)
(***************************************************************************)
Undefined == <<>>

Some(v) == <<v>>

\* a || b on optional strings: undefined and "" are falsy
OrString(a, b) == IF a # Undefined /\ a[1] # "" THEN a ELSE b

\* a || b on an optional number and a number: undefined and 0 are falsy
OrNumber(a, b) == IF a # Undefined /\ a[1] # 0 THEN a[1] ELSE b

\* `${v}` of an optional string
TemplateString(v) == IF v = Undefined THEN "undefined" ELSE v[1]

RECURSIVE Join(_, _)
\* Array.prototype.join
Join(xs, sep) ==
    IF Len(xs) = 0 THEN ""
    ELSE IF Len(xs) = 1 THEN xs[1]
    ELSE xs[1] \o sep \o Join(Tail(xs), sep)

UpperChars == "ABCDEFGHIJKLMNOPQRSTUVWXYZ"
LowerChars == "abcdefghijklmnopqrstuvwxyz"

LowerChar(c) ==
    IF \E k \in 1..26 : CharAt(UpperChars, k) = c
    THEN CharAt(LowerChars, CHOOSE k \in 1..26 : CharAt(UpperChars, k) = c)
    ELSE c

RECURSIVE LowerCaseOf(_)
\* String.prototype.toLowerCase on ASCII text, character by character
LowerCaseOf(s) ==
    IF Len(s) = 0 THEN ""
    ELSE LowerCaseOf(SubSeq(s, 1, Len(s) - 1)) \o LowerChar(CharAt(s, Len(s)))

\* the texts the model lower-cases, with their lower-case form computed once
LowerCaseTexts ==
    {"ethereum", "Ethereum", "solana", "constructor",
     "ARBITRUM", "base", "Polygon", "plasma", "", "Constructor", "__proto__",
     "toString",
     "0x9Fb7b4477576Fe5B32be4C1843aFB1e55F251B33", "0x123",
     "0xA5C3E16523eeeDDcC34706b0E6bE88b4c6EA95cC",
     "0x05Bd8269A20C472b148246De20E6852091BF16Ff",
     "0x48D32f49aFeAEC7AE66ad7B9264f446fc11a1569",
     "0xca13A15de31235A37134B4717021C35A3CF25C60",
     "0x11D80CfF056Cef4F9E6d23da8672fE9873e5cC07",
     "0x000000000000000000000000000000000000dEaD",
     "0x00000000000000000000000000000000000000a1",
     "0xEeeeeEeeeEeEeeEeEeEeeEEEeeeeEeeeeeeeEEeE",
     "0xeeeeeeeeeeeeeeeeeeeeeeeeeeeeeeeeeeeeeeee",
     "0xdAC17F958D2ee523a2206206994597C13D831ec7",
     "0xA0b86991c6218b36c1d19D4a2e9Eb0cE3606eB48"}

LowerCaseTable == [s \in LowerCaseTexts |-> LowerCaseOf(s)]

toLowerCase(s) == IF s \in LowerCaseTexts THEN LowerCaseTable[s] ELSE LowerCaseOf(s)

(***************************************************************************)
(* config/chains                                                           *)
(***************************************************************************)
CONTRACTS ==
    [lendingResolver     |-> "0x48D32f49aFeAEC7AE66ad7B9264f446fc11a1569",
     vaultResolver       |-> "0xA5C3E16523eeeDDcC34706b0E6bE88b4c6EA95cC",
     liquidityResolver   |-> "0xca13A15de31235A37134B4717021C35A3CF25C60",
     dexResolver         |-> "0x11D80CfF056Cef4F9E6d23da8672fE9873e5cC07",
     dexReservesResolver |-> "0x05Bd8269A20C472b148246De20E6852091BF16Ff"]

NativeToken == "0xEeeeeEeeeEeEeeEeEeEeeEEEeeeeEeeeeeeeEEeE"

CHAINS ==
    [key \in {"ethereum", "arbitrum", "base", "polygon", "plasma"} |->
        CASE key = "ethereum" ->
                [chainId |-> Some(1), rpcDefault |-> Some("https://eth.llamarpc.com"),
                 nativeToken |-> Some(NativeToken)]
          [] key = "arbitrum" ->
                [chainId |-> Some(42161), rpcDefault |-> Some("https://arb1.arbitrum.io/rpc"),
                 nativeToken |-> Some(NativeToken)]
          [] key = "base" ->
                [chainId |-> Some(8453), rpcDefault |-> Some("https://mainnet.base.org"),
                 nativeToken |-> Some(NativeToken)]
          [] key = "polygon" ->
                [chainId |-> Some(137), rpcDefault |-> Some("https://polygon-rpc.com"),
                 nativeToken |-> Some(NativeToken)]
          [] key = "plasma" ->
                [chainId |-> Some(9745), rpcDefault |-> Some("https://rpc.plasma.to"),
                 nativeToken |-> Some(NativeToken)]]

\* Object.keys(CHAINS), in insertion order
SUPPORTED_CHAINS == <<"ethereum", "arbitrum", "base", "polygon", "plasma">>

\* CHAINS is a plain object: a key it does not own is looked up on
\* Object.prototype, whose members carry none of the ChainConfig fields
ObjectPrototypeKeys == {"constructor", "__proto__"}

InheritedMember ==
    [chainId |-> Undefined, rpcDefault |-> Undefined, nativeToken |-> Undefined]

NoConfig == InheritedMember

getChainConfig(chain) ==
    LET key == toLowerCase(chain)
    IN  IF key \in DOMAIN CHAINS
        THEN [threw |-> FALSE, config |-> CHAINS[key], message |-> ""]
        ELSE IF key \in ObjectPrototypeKeys
        THEN [threw |-> FALSE, config |-> InheritedMember, message |-> ""]
        ELSE [threw |-> TRUE, config |-> NoConfig,
              message |-> "Unsupported chain: " \o chain \o ". Supported: "
                            \o Join(SUPPORTED_CHAINS, ", ")]

(***************************************************************************)
(* utils/provider                                                          *)
(***************************************************************************)
NoProvider == [id |-> 0, url |-> Undefined, chainId |-> Undefined]

\* providerCache.get(cacheKey) that never finds the entry
CacheGet_miss(cache, cacheKey) == Undefined

\* providerCache.get(cacheKey)
CacheGet(cache, cacheKey) ==
    IF cacheKey \in DOMAIN cache THEN Some(cache[cacheKey]) ELSE Undefined

\* providerCache.set(cacheKey, provider) that stores nothing
CacheSet_skip(cache, cacheKey, provider) == cache

\* providerCache.set(cacheKey, provider)
CacheSet(cache, cacheKey, provider) ==
    [k \in DOMAIN cache \cup {cacheKey} |-> IF k = cacheKey THEN provider ELSE cache[k]]

\* `${chain}:${rpcUrl}`
CacheKey(chain, rpcUrl) == chain \o ":" \o TemplateString(rpcUrl)

\* getProvider that constructs and caches its provider before it validates
\* the chain
getProvider_constructFirst(chain, customRpc, cache, made) ==
    LET cfg == getChainConfig(chain)
        rpcUrl   == OrString(customRpc, IF cfg.threw THEN Undefined
                                        ELSE cfg.config.rpcDefault)
        cacheKey == CacheKey(chain, rpcUrl)
        hit      == CacheGet(cache, cacheKey)
        fresh    == [id |-> Len(made) + 1, url |-> rpcUrl,
                     chainId |-> IF cfg.threw THEN Undefined ELSE cfg.config.chainId]
        stored   == IF hit # Undefined THEN cache ELSE CacheSet(cache, cacheKey, fresh)
        built    == IF hit # Undefined THEN made
                    ELSE Append(made, [key |-> cacheKey, provider |-> fresh])
    IN  IF cfg.threw
        THEN [threw |-> TRUE, message |-> cfg.message, provider |-> NoProvider,
              cache |-> stored, made |-> built]
        ELSE [threw |-> FALSE, message |-> "",
              provider |-> IF hit # Undefined THEN hit[1] ELSE fresh,
              cache |-> stored, made |-> built]

\* getProvider against the cache `cache`, `made` being the providers constructed
\* so far: what it returns or throws, and the cache and `made` it leaves
getProvider(chain, customRpc, cache, made) ==
    LET cfg == getChainConfig(chain)
    IN  IF cfg.threw
        THEN [threw |-> TRUE, message |-> cfg.message, provider |-> NoProvider,
              cache |-> cache, made |-> made]
        ELSE LET rpcUrl   == OrString(customRpc, cfg.config.rpcDefault)
                 cacheKey == CacheKey(chain, rpcUrl)
                 hit      == CacheGet(cache, cacheKey)
                 fresh    == [id |-> Len(made) + 1, url |-> rpcUrl,
                              chainId |-> cfg.config.chainId]
             IN  IF hit # Undefined
                 THEN [threw |-> FALSE, message |-> "", provider |-> hit[1],
                       cache |-> cache, made |-> made]
                 ELSE [threw |-> FALSE, message |-> "", provider |-> fresh,
                       cache |-> CacheSet(cache, cacheKey, fresh),
                       made |-> Append(made, [key |-> cacheKey, provider |-> fresh])]

\* getSigner: new ethers.Wallet(privateKey, provider)
getSigner(privateKey, provider) == [privateKey |-> privateKey, provider |-> provider.id]

HexChars == "0123456789abcdef"

\* 0x and 40 hex digits
IsHexAddress(a) ==
    /\ Len(a) = 42
    /\ SubSeq(a, 1, 2) = "0x"
    /\ \A i \in 3..42 : \E h \in 1..16 : CharAt(HexChars, h) = CharAt(a, i)

IsHexAddressTable == [s \in LowerCaseTexts |-> IsHexAddress(toLowerCase(s))]

\* ethers.getAddress(address.toLowerCase()) accepts 0x and 40 hex digits
IsAddress(address) ==
    IF address \in LowerCaseTexts THEN IsHexAddressTable[address]
    ELSE IsHexAddress(toLowerCase(address))

\* getContract: the contract bound to the provider, or the throw of getAddress
getContract(address, provider) ==
    IF IsAddress(address)
    THEN [threw |-> FALSE, message |-> "",
          contract |-> [address |-> toLowerCase(address), provider |-> provider.id]]
    ELSE [threw |-> TRUE, message |-> "invalid address",
          contract |-> [address |-> "", provider |-> 0]]

(***************************************************************************)
(* index.ts: the server, the tool groups and their registration            *)
(***************************************************************************)
\* Object.keys of each exported tool group, in insertion order
liquidityReadTools ==
    <<"fluid_get_listed_tokens", "fluid_get_token_rates", "fluid_get_all_tokens_data",
      "fluid_get_user_supply", "fluid_get_user_borrow", "fluid_get_revenue">>

lendingReadTools ==
    <<"fluid_get_all_ftokens", "fluid_get_ftoken_details",
      "fluid_get_all_ftokens_details", "fluid_get_user_lending_position",
      "fluid_get_user_all_positions", "fluid_get_previews">>

vaultReadTools ==
    <<"fluid_get_all_vaults", "fluid_get_vault_type", "fluid_get_vault_data",
      "fluid_get_vault_position", "fluid_get_user_vault_nft_ids",
      "fluid_get_vault_by_nft", "fluid_get_total_positions">>

dexReadTools ==
    <<"fluid_get_dex_pools", "fluid_get_pool_reserves", "fluid_get_all_pools_reserves",
      "fluid_get_pool_adjusted_reserves", "fluid_estimate_swap_in",
      "fluid_estimate_swap_out">>

lendingWriteTools ==
    <<"fluid_build_lending_deposit", "fluid_build_lending_mint",
      "fluid_build_lending_withdraw", "fluid_build_lending_redeem",
      "fluid_build_lending_deposit_native", "fluid_build_lending_withdraw_native",
      "fluid_build_token_approve">>

vaultWriteTools ==
    <<"fluid_build_vault_t1_operate", "fluid_build_vault_t2_operate",
      "fluid_build_vault_t3_operate", "fluid_build_vault_t4_operate">>

dexWriteTools == <<"fluid_build_swap_exact_input", "fluid_build_swap_exact_output">>

\* the groups index.ts imports and hands to registerToolGroup, in call order
RegisteredGroups ==
    <<lendingReadTools, vaultReadTools, lendingWriteTools, vaultWriteTools>>

\* new McpServer(...)
NewServer ==
    [phase |-> "tools", groups |-> 0, tools |-> <<>>, resources |-> <<>>,
     prompts |-> <<>>]

Range(xs) == {xs[k] : k \in 1..Len(xs)}

\* server.tool(name, ...): a name already registered is refused with a throw
ServerTool(srv, name) ==
    IF srv.phase = "crashed" THEN srv
    ELSE IF name \in Range(srv.tools) THEN [srv EXCEPT !.phase = "crashed"]
    ELSE [srv EXCEPT !.tools = Append(@, name)]

RECURSIVE registerToolGroup(_, _)
\* for (const [name, tool] of Object.entries(tools)) server.tool(name, ...)
registerToolGroup(srv, tools) ==
    IF Len(tools) = 0 THEN srv
    ELSE registerToolGroup(ServerTool(srv, Head(tools)), Tail(tools))

\* the next registerToolGroup(...) statement of the module
RegisterToolGroup ==
    /\ server.phase = "tools"
    /\ LET srv == registerToolGroup(server, RegisteredGroups[server.groups + 1])
           done == server.groups + 1
       IN  server' = IF srv.phase = "crashed" THEN srv
                     ELSE [srv EXCEPT !.groups = done,
                                      !.phase = IF done = Len(RegisteredGroups)
                                                THEN "resources" ELSE "tools"]
    /\ UNCHANGED <<numVars, providerCache, constructed, inv>>

\* the two server.resource(...) statements
RegisterResources ==
    /\ server.phase = "resources"
    /\ server' = [server EXCEPT !.resources = <<"fluid://chains", "fluid://overview">>,
                                !.phase = "prompts"]
    /\ UNCHANGED <<numVars, providerCache, constructed, inv>>

\* the three server.prompt(...) statements
RegisterPrompts ==
    /\ server.phase = "prompts"
    /\ server' = [server EXCEPT
                     !.prompts = <<"analyze-lending-rates", "check-vault-health",
                                   "find-swap-route">>,
                     !.phase = "connect"]
    /\ UNCHANGED <<numVars, providerCache, constructed, inv>>

\* main(): await server.connect(transport)
Connect ==
    /\ server.phase = "connect"
    /\ server' = [server EXCEPT !.phase = "serving"]
    /\ UNCHANGED <<numVars, providerCache, constructed, inv>>

RECURSIVE RegisterAll(_, _)
RegisterAll(srv, groups) ==
    IF Len(groups) = 0 THEN srv
    ELSE RegisterAll(registerToolGroup(srv, Head(groups)), Tail(groups))

\* the server once the module has loaded and main() has connected it
StartedServer ==
    [RegisterAll(NewServer, RegisteredGroups) EXCEPT
        !.groups = Len(RegisteredGroups),
        !.resources = <<"fluid://chains", "fluid://overview">>,
        !.prompts = <<"analyze-lending-rates", "check-vault-health", "find-swap-route">>,
        !.phase = "serving"]

(***************************************************************************)
(* Tool invocations.  An invocation runs its handler from the call up to   *)
(* the first await in one step, and from one settled await to the next (or *)
(* to its return or throw) in one step: JavaScript runs to completion      *)
(* between awaits.                                                         *)
(***************************************************************************)
\* invocation slots
MaxInv == 2

Slots == 1..MaxInv

ChainInputs == {"ethereum", "Ethereum", "solana"}

RpcInputs == {Undefined, Some("https://eth.llamarpc.com"), Some("https://rpc.example")}

GoodAddress == "0x9Fb7b4477576Fe5B32be4C1843aFB1e55F251B33"

AddressInputs == {GoodAddress, "0x123"}

Receiver == "0x000000000000000000000000000000000000dEaD"

AmountInputs == {"1000"}

\* what the endpoint may answer
CallErrors == {"execution reverted"}

PreviewValues == {0, 990}

VaultTypeValues == {10000, 7}

VaultLists ==
    {<<>>, <<"0xeAbBfca72F8a8bf14C4ac59e69ECB2eB69F0811C">>,
     <<"0xeAbBfca72F8a8bf14C4ac59e69ECB2eB69F0811C",
       "0xbEC491FeF7B4f666b270F9D5E5C3f443cBf20991">>}

TotalValues == {2}

ReservesValues ==
    {[token0 |-> NativeToken,
      token1 |-> "0xdAC17F958D2ee523a2206206994597C13D831ec7",
      colReserves0Adjusted |-> 500, colReserves1Adjusted |-> 700,
      debtReserves0Adjusted |-> 0, debtReserves1Adjusted |-> 0],
     [token0 |-> "0xA0b86991c6218b36c1d19D4a2e9Eb0cE3606eB48",
      token1 |-> "0xeeeeeeeeeeeeeeeeeeeeeeeeeeeeeeeeeeeeeeee",
      colReserves0Adjusted |-> 300, colReserves1Adjusted |-> 0,
      debtReserves0Adjusted |-> 40, debtReserves1Adjusted |-> 60]}

EstimateValues == {0, 997}

NoJson == [none |-> TRUE]

NoResult == [ok |-> FALSE, message |-> "", json |-> NoJson]

\* signer: the wallet getSigner made for the invocation, if it made one
IdleInv ==
    [pc |-> "idle", tool |-> "", args |-> [chain |-> ""], provider |-> NoProvider,
     signer |-> Undefined,
     calls |-> <<>>, locals |-> [none |-> TRUE], result |-> NoResult]

\* the handler's promise rejects: the caller gets a failure with the message
Failed(v, message) ==
    [v EXCEPT !.pc = "failed",
              !.result = [ok |-> FALSE, message |-> message, json |-> NoJson]]

\* the handler returns { content: [{ type: "text", text: JSON.stringify(json) }] }
Returned(v, json) ==
    [v EXCEPT !.pc = "returned",
              !.result = [ok |-> TRUE, message |-> "", json |-> json]]

\* the functions the ABIs declare payable or nonpayable; every other function
\* of the ABIs is a view
NonViewFunctions ==
    {"deposit", "mint", "withdraw", "redeem", "depositNative", "withdrawNative",
     "operate", "swapIn", "swapOut", "approve"}

\* contract.method(...): a read-only eth_call for a view function, a
\* transaction to sign and send for any other
CallKind(method) == IF method \in NonViewFunctions THEN "sendTransaction" ELSE "call"

\* a contract call goes out on the provider
Issue(calls, contract, method, cargs) ==
    Append(calls, [to |-> contract.address, provider |-> contract.provider,
                   method |-> method, kind |-> CallKind(method), args |-> cargs,
                   status |-> "pending", value |-> Undefined, error |-> ""])

Resolved(v, k, value) ==
    [v EXCEPT !.calls[k].status = "ok", !.calls[k].value = Some(value)]

Rejected(v, k, error) ==
    [v EXCEPT !.calls[k].status = "failed", !.calls[k].error = error]

\* BigInt(text) of a text of decimal digits
BigInt(text) == ParseDigits(text)

\* contract.interface.encodeFunctionData: the function and its encoded arguments
EncodeFunctionData(name, values) == [function |-> name, values |-> values]

\* a handler is called once the server serves; the handlers of the groups
\* index.ts does not register are called as the exported functions they are
CanStart(i) ==
    /\ server.phase = "serving"
    /\ inv[i].pc = "idle"
    /\ \A j \in 1..(i - 1) : inv[j].pc # "idle"

(***************************************************************************)
(* lending-write: fluid_build_lending_deposit                              *)
(***************************************************************************)
\* the response carrying a count of the requests the process has seen
LendingDepositJson_counted(args, txData, previewShares) ==
    [chain |-> args.chain, action |-> "deposit", to |-> args.ftoken_address,
     data |-> txData, value |-> "0", previewSharesReceived |-> previewShares,
     description |-> "Deposit " \o args.amount \o " raw units into fToken "
                       \o args.ftoken_address \o ". Receiver: " \o args.receiver,
     note |-> "request " \o ToString(Cardinality({j \in DOMAIN inv : inv[j].pc # "idle"}))]

LendingDepositJson(args, txData, previewShares) ==
    [chain |-> args.chain, action |-> "deposit", to |-> args.ftoken_address,
     data |-> txData, value |-> "0", previewSharesReceived |-> previewShares,
     description |-> "Deposit " \o args.amount \o " raw units into fToken "
                       \o args.ftoken_address \o ". Receiver: " \o args.receiver,
     note |-> "You must first approve the fToken contract to spend the underlying asset. Use fluid_build_token_approve if needed."]

\* from the call of the handler to its await of previewDeposit
LendingDepositStart(v, gp) ==
    IF gp.threw THEN Failed(v, gp.message)
    ELSE LET c == getContract(v.args.ftoken_address, gp.provider)
             w == [v EXCEPT !.provider = gp.provider]
         IN  IF c.threw THEN Failed(w, c.message)
             ELSE [w EXCEPT
                     !.pc = "previewDeposit",
                     !.locals = [txData |-> EncodeFunctionData("deposit",
                                    <<BigInt(v.args.amount), v.args.receiver>>)],
                     !.calls = Issue(@, c.contract, "previewDeposit",
                                     <<BigInt(v.args.amount)>>)]

\* the preview awaited without a try/catch around it
LendingDepositFinish_previewRequired(v) ==
    LET call == v.calls[1]
    IN  IF call.status = "failed" THEN Failed(v, call.error)
        ELSE Returned(v, LendingDepositJson(v.args, v.locals.txData,
                                            ToString(call.value[1])))

\* try { previewShares = (await previewDeposit).toString() } catch {}; return
LendingDepositFinish(v) ==
    LET call == v.calls[1]
        previewShares == IF call.status = "ok" THEN ToString(call.value[1]) ELSE "0"
    IN  Returned(v, LendingDepositJson(v.args, v.locals.txData, previewShares))

LendingDeposit(i) ==
    /\ CanStart(i)
    /\ \E chain \in ChainInputs, rpc \in {Undefined}, addr \in AddressInputs,
          amount \in AmountInputs :
          LET args == [chain |-> chain, ftoken_address |-> addr, amount |-> amount,
                       receiver |-> Receiver, rpc_url |-> rpc]
              gp   == getProvider(chain, rpc, providerCache, constructed)
              v    == [IdleInv EXCEPT !.tool = "fluid_build_lending_deposit",
                                      !.args = args]
          IN  /\ providerCache' = gp.cache
              /\ constructed' = gp.made
              /\ inv' = [inv EXCEPT ![i] = LendingDepositStart(v, gp)]
    /\ UNCHANGED <<numVars, server>>

LendingDepositPreviewReturns(i) ==
    /\ inv[i].tool = "fluid_build_lending_deposit"
    /\ inv[i].pc = "previewDeposit"
    /\ \E shares \in PreviewValues :
          inv' = [inv EXCEPT ![i] = LendingDepositFinish(Resolved(inv[i], 1, shares))]
    /\ UNCHANGED <<providerCache, constructed, numVars, server>>

LendingDepositPreviewFails(i) ==
    /\ inv[i].tool = "fluid_build_lending_deposit"
    /\ inv[i].pc = "previewDeposit"
    /\ \E error \in CallErrors :
          inv' = [inv EXCEPT ![i] = LendingDepositFinish(Rejected(inv[i], 1, error))]
    /\ UNCHANGED <<providerCache, constructed, numVars, server>>

(***************************************************************************)
(* lending-write: fluid_build_lending_deposit_native                       *)
(***************************************************************************)
\* a native deposit that sends no ether along
LendingDepositNativeJson_noValue(args, txData) ==
    [chain |-> args.chain, action |-> "depositNative", to |-> args.ftoken_address,
     data |-> txData, value |-> "0",
     description |-> "Deposit " \o args.amount \o " wei of native ETH into fToken "
                       \o args.ftoken_address \o ". Receiver: " \o args.receiver]

LendingDepositNativeJson(args, txData) ==
    [chain |-> args.chain, action |-> "depositNative", to |-> args.ftoken_address,
     data |-> txData, value |-> args.amount,
     description |-> "Deposit " \o args.amount \o " wei of native ETH into fToken "
                       \o args.ftoken_address \o ". Receiver: " \o args.receiver]

\* a handler that takes a key, signs and sends the deposit itself
LendingDepositNativeRun_signs(v, gp) ==
    IF gp.threw THEN Failed(v, gp.message)
    ELSE LET c == getContract(v.args.ftoken_address, gp.provider)
             w == [v EXCEPT !.provider = gp.provider,
                            !.signer = Some(getSigner("0xkey", gp.provider))]
         IN  IF c.threw THEN Failed(w, c.message)
             ELSE Returned([w EXCEPT !.calls = Issue(@, c.contract, "depositNative",
                                                     <<v.args.receiver>>)],
                           LendingDepositNativeJson(v.args,
                               EncodeFunctionData("depositNative", <<v.args.receiver>>)))

\* the whole handler: it awaits nothing
LendingDepositNativeRun(v, gp) ==
    IF gp.threw THEN Failed(v, gp.message)
    ELSE LET c == getContract(v.args.ftoken_address, gp.provider)
             w == [v EXCEPT !.provider = gp.provider]
         IN  IF c.threw THEN Failed(w, c.message)
             ELSE Returned(w, LendingDepositNativeJson(v.args,
                        EncodeFunctionData("depositNative", <<v.args.receiver>>)))

LendingDepositNative(i) ==
    /\ CanStart(i)
    /\ \E chain \in ChainInputs, rpc \in {Undefined}, addr \in {GoodAddress},
          amount \in AmountInputs :
          LET args == [chain |-> chain, ftoken_address |-> addr, amount |-> amount,
                       receiver |-> Receiver, rpc_url |-> rpc]
              gp   == getProvider(chain, rpc, providerCache, constructed)
              v    == [IdleInv EXCEPT !.tool = "fluid_build_lending_deposit_native",
                                      !.args = args]
          IN  /\ providerCache' = gp.cache
              /\ constructed' = gp.made
              /\ inv' = [inv EXCEPT ![i] = LendingDepositNativeRun(v, gp)]
    /\ UNCHANGED <<numVars, server>>

\* the chain arguments the further builders are called with
BuilderChains == {"ethereum", "solana"}

Owner == "0x00000000000000000000000000000000000000a1"

(***************************************************************************)
(* lending-write: fluid_build_lending_mint                                 *)
(***************************************************************************)
LendingMintJson(args, txData, preview) ==
    [chain |-> args.chain, action |-> "mint", to |-> args.ftoken_address,
     data |-> txData, value |-> "0", previewAssetsNeeded |-> preview,
     description |-> "Mint " \o args.shares \o " fToken shares from "
                       \o args.ftoken_address \o ". Receiver: " \o args.receiver,
     note |-> "You must first approve the fToken contract to spend the underlying asset."]

\* from the call of the handler to its await of previewMint
LendingMintStart(v, gp) ==
    IF gp.threw THEN Failed(v, gp.message)
    ELSE LET c == getContract(v.args.ftoken_address, gp.provider)
             w == [v EXCEPT !.provider = gp.provider]
         IN  IF c.threw THEN Failed(w, c.message)
             ELSE [w EXCEPT
                     !.pc = "previewMint",
                     !.locals = [txData |-> EncodeFunctionData("mint",
                                    <<BigInt(v.args.shares), v.args.receiver>>)],
                     !.calls = Issue(@, c.contract, "previewMint",
                                     <<BigInt(v.args.shares)>>)]

\* try { preview = (await previewMint).toString() } catch {}; return
LendingMintFinish(v) ==
    LET call == v.calls[1]
        preview == IF call.status = "ok" THEN ToString(call.value[1]) ELSE "0"
    IN  Returned(v, LendingMintJson(v.args, v.locals.txData, preview))

LendingMint(i) ==
    /\ CanStart(i)
    /\ \E chain \in BuilderChains, addr \in AddressInputs, amount \in AmountInputs :
          LET args == [chain |-> chain, ftoken_address |-> addr, shares |-> amount,
                       receiver |-> Receiver, rpc_url |-> Undefined]
              gp   == getProvider(chain, Undefined, providerCache, constructed)
              v    == [IdleInv EXCEPT !.tool = "fluid_build_lending_mint", !.args = args]
          IN  /\ providerCache' = gp.cache
              /\ constructed' = gp.made
              /\ inv' = [inv EXCEPT ![i] = LendingMintStart(v, gp)]
    /\ UNCHANGED <<numVars, server>>

LendingMintPreviewReturns(i) ==
    /\ inv[i].tool = "fluid_build_lending_mint"
    /\ inv[i].pc = "previewMint"
    /\ \E amount \in PreviewValues :
          inv' = [inv EXCEPT ![i] = LendingMintFinish(Resolved(inv[i], 1, amount))]
    /\ UNCHANGED <<providerCache, constructed, numVars, server>>

LendingMintPreviewFails(i) ==
    /\ inv[i].tool = "fluid_build_lending_mint"
    /\ inv[i].pc = "previewMint"
    /\ \E error \in CallErrors :
          inv' = [inv EXCEPT ![i] = LendingMintFinish(Rejected(inv[i], 1, error))]
    /\ UNCHANGED <<providerCache, constructed, numVars, server>>

(***************************************************************************)
(* lending-write: fluid_build_lending_withdraw                             *)
(***************************************************************************)
LendingWithdrawJson(args, txData, preview) ==
    [chain |-> args.chain, action |-> "withdraw", to |-> args.ftoken_address,
     data |-> txData, value |-> "0", previewSharesBurned |-> preview,
     description |-> "Withdraw " \o args.amount \o " raw units from fToken "
                       \o args.ftoken_address \o ". Receiver: " \o args.receiver]

\* from the call of the handler to its await of previewWithdraw
LendingWithdrawStart(v, gp) ==
    IF gp.threw THEN Failed(v, gp.message)
    ELSE LET c == getContract(v.args.ftoken_address, gp.provider)
             w == [v EXCEPT !.provider = gp.provider]
         IN  IF c.threw THEN Failed(w, c.message)
             ELSE [w EXCEPT
                     !.pc = "previewWithdraw",
                     !.locals = [txData |-> EncodeFunctionData("withdraw",
                                    <<BigInt(v.args.amount), v.args.receiver, v.args.owner>>)],
                     !.calls = Issue(@, c.contract, "previewWithdraw",
                                     <<BigInt(v.args.amount)>>)]

\* try { preview = (await previewWithdraw).toString() } catch {}; return
LendingWithdrawFinish(v) ==
    LET call == v.calls[1]
        preview == IF call.status = "ok" THEN ToString(call.value[1]) ELSE "0"
    IN  Returned(v, LendingWithdrawJson(v.args, v.locals.txData, preview))

LendingWithdraw(i) ==
    /\ CanStart(i)
    /\ \E chain \in BuilderChains, addr \in AddressInputs, amount \in AmountInputs :
          LET args == [chain |-> chain, ftoken_address |-> addr, amount |-> amount,
                       receiver |-> Receiver, owner |-> Owner, rpc_url |-> Undefined]
              gp   == getProvider(chain, Undefined, providerCache, constructed)
              v    == [IdleInv EXCEPT !.tool = "fluid_build_lending_withdraw", !.args = args]
          IN  /\ providerCache' = gp.cache
              /\ constructed' = gp.made
              /\ inv' = [inv EXCEPT ![i] = LendingWithdrawStart(v, gp)]
    /\ UNCHANGED <<numVars, server>>

LendingWithdrawPreviewReturns(i) ==
    /\ inv[i].tool = "fluid_build_lending_withdraw"
    /\ inv[i].pc = "previewWithdraw"
    /\ \E amount \in PreviewValues :
          inv' = [inv EXCEPT ![i] = LendingWithdrawFinish(Resolved(inv[i], 1, amount))]
    /\ UNCHANGED <<providerCache, constructed, numVars, server>>

LendingWithdrawPreviewFails(i) ==
    /\ inv[i].tool = "fluid_build_lending_withdraw"
    /\ inv[i].pc = "previewWithdraw"
    /\ \E error \in CallErrors :
          inv' = [inv EXCEPT ![i] = LendingWithdrawFinish(Rejected(inv[i], 1, error))]
    /\ UNCHANGED <<providerCache, constructed, numVars, server>>

(***************************************************************************)
(* lending-write: fluid_build_lending_redeem                               *)
(***************************************************************************)
LendingRedeemJson(args, txData, preview) ==
    [chain |-> args.chain, action |-> "redeem", to |-> args.ftoken_address,
     data |-> txData, value |-> "0", previewAssetsReceived |-> preview,
     description |-> "Redeem " \o args.shares \o " fToken shares from "
                       \o args.ftoken_address \o ". Receiver: " \o args.receiver]

\* from the call of the handler to its await of previewRedeem
LendingRedeemStart(v, gp) ==
    IF gp.threw THEN Failed(v, gp.message)
    ELSE LET c == getContract(v.args.ftoken_address, gp.provider)
             w == [v EXCEPT !.provider = gp.provider]
         IN  IF c.threw THEN Failed(w, c.message)
             ELSE [w EXCEPT
                     !.pc = "previewRedeem",
                     !.locals = [txData |-> EncodeFunctionData("redeem",
                                    <<BigInt(v.args.shares), v.args.receiver, v.args.owner>>)],
                     !.calls = Issue(@, c.contract, "previewRedeem",
                                     <<BigInt(v.args.shares)>>)]

\* try { preview = (await previewRedeem).toString() } catch {}; return
LendingRedeemFinish(v) ==
    LET call == v.calls[1]
        preview == IF call.status = "ok" THEN ToString(call.value[1]) ELSE "0"
    IN  Returned(v, LendingRedeemJson(v.args, v.locals.txData, preview))

LendingRedeem(i) ==
    /\ CanStart(i)
    /\ \E chain \in BuilderChains, addr \in AddressInputs, amount \in AmountInputs :
          LET args == [chain |-> chain, ftoken_address |-> addr, shares |-> amount,
                       receiver |-> Receiver, owner |-> Owner, rpc_url |-> Undefined]
              gp   == getProvider(chain, Undefined, providerCache, constructed)
              v    == [IdleInv EXCEPT !.tool = "fluid_build_lending_redeem", !.args = args]
          IN  /\ providerCache' = gp.cache
              /\ constructed' = gp.made
              /\ inv' = [inv EXCEPT ![i] = LendingRedeemStart(v, gp)]
    /\ UNCHANGED <<numVars, server>>

LendingRedeemPreviewReturns(i) ==
    /\ inv[i].tool = "fluid_build_lending_redeem"
    /\ inv[i].pc = "previewRedeem"
    /\ \E amount \in PreviewValues :
          inv' = [inv EXCEPT ![i] = LendingRedeemFinish(Resolved(inv[i], 1, amount))]
    /\ UNCHANGED <<providerCache, constructed, numVars, server>>

LendingRedeemPreviewFails(i) ==
    /\ inv[i].tool = "fluid_build_lending_redeem"
    /\ inv[i].pc = "previewRedeem"
    /\ \E error \in CallErrors :
          inv' = [inv EXCEPT ![i] = LendingRedeemFinish(Rejected(inv[i], 1, error))]
    /\ UNCHANGED <<providerCache, constructed, numVars, server>>

(***************************************************************************)
(* lending-write: fluid_build_lending_withdraw_native                      *)
(***************************************************************************)
LendingWithdrawNativeJson(args, txData) ==
    [chain |-> args.chain, action |-> "withdrawNative", to |-> args.ftoken_address,
     data |-> txData, value |-> "0",
     description |-> "Withdraw " \o args.amount \o " wei of native ETH from fToken "
                       \o args.ftoken_address \o ". Receiver: " \o args.receiver]

\* the whole handler: it awaits nothing
LendingWithdrawNativeRun(v, gp) ==
    IF gp.threw THEN Failed(v, gp.message)
    ELSE LET c == getContract(v.args.ftoken_address, gp.provider)
             w == [v EXCEPT !.provider = gp.provider]
         IN  IF c.threw THEN Failed(w, c.message)
             ELSE Returned(w, LendingWithdrawNativeJson(v.args,
                        EncodeFunctionData("withdrawNative",
                            <<BigInt(v.args.amount), v.args.receiver, v.args.owner>>)))

LendingWithdrawNative(i) ==
    /\ CanStart(i)
    /\ \E chain \in BuilderChains, addr \in AddressInputs, amount \in AmountInputs :
          LET args == [chain |-> chain, ftoken_address |-> addr, amount |-> amount,
                       receiver |-> Receiver, owner |-> Owner, rpc_url |-> Undefined]
              gp   == getProvider(chain, Undefined, providerCache, constructed)
              v    == [IdleInv EXCEPT !.tool = "fluid_build_lending_withdraw_native",
                                      !.args = args]
          IN  /\ providerCache' = gp.cache
              /\ constructed' = gp.made
              /\ inv' = [inv EXCEPT ![i] = LendingWithdrawNativeRun(v, gp)]
    /\ UNCHANGED <<numVars, server>>

(***************************************************************************)
(* bigints of any size: a sign and the decimal digits without leading      *)
(* zeros                                                                   *)
(***************************************************************************)
IsDigits(s) == \A k \in 1..Len(s) : IsDigit(CharAt(s, k))

RECURSIVE StripZeros(_)
StripZeros(digits) ==
    IF Len(digits) > 1 /\ CharAt(digits, 1) = "0"
    THEN StripZeros(SubSeq(digits, 2, Len(digits)))
    ELSE digits

Zero == [neg |-> FALSE, digits |-> "0"]

\* BigInt(text) of a decimal text: "" is 0n, a sign may lead the digits,
\* anything else of these texts is a SyntaxError
StringToBigInt(text) ==
    LET signed == Len(text) > 0 /\ CharAt(text, 1) \in {"-", "+"}
        body   == IF signed THEN SubSeq(text, 2, Len(text)) ELSE text
    IN  IF text = "" THEN [threw |-> FALSE, message |-> "", value |-> Zero]
        ELSE IF Len(body) >= 1 /\ IsDigits(body)
        THEN [threw |-> FALSE, message |-> "",
              value |-> [neg |-> CharAt(text, 1) = "-" /\ StripZeros(body) # "0",
                         digits |-> StripZeros(body)]]
        ELSE [threw |-> TRUE, message |-> "Cannot convert " \o text \o " to a BigInt",
              value |-> Zero]

\* a JavaScript integer taken as a bigint
NumberToBigInt(n) == [neg |-> n < 0, digits |-> ToString(Abs(n))]

\* bigint.toString()
BigIntToString(b) == IF b.neg THEN "-" \o b.digits ELSE b.digits

\* b > 0n
IsPositive(b) == ~b.neg /\ b.digits # "0"

\* ethers.MaxUint256
MaxUint256 ==
    [neg |-> FALSE,
     digits |-> "115792089237316195423570985008687907853269984665640564039457584007913129639935"]

\* encodeFunctionData with the ABI's types: a negative number for a uint256
\* is refused; tuples are laid out field by field
EncodeTyped(name, types, values) ==
    IF \E k \in 1..Len(types) : types[k] = "uint256" /\ values[k].neg
    THEN [threw |-> TRUE, message |-> "value out-of-bounds",
          data |-> EncodeFunctionData(name, <<>>)]
    ELSE [threw |-> FALSE, message |-> "",
          data |-> EncodeFunctionData(name,
                      [k \in 1..Len(types) |->
                          IF types[k] \in {"uint256", "int256"}
                          THEN BigIntToString(values[k]) ELSE values[k]])]

(***************************************************************************)
(* lending-write: fluid_build_token_approve                                *)
(***************************************************************************)
ApproveAmountInputs == {Undefined, Some(""), Some("0"), Some("1000"), Some("abc")}

\* the response naming the spender as the contract to call
TokenApproveJson_toSpender(args, txData) ==
    [chain |-> args.chain, action |-> "approve", to |-> args.spender,
     data |-> txData, value |-> "0",
     description |-> "Approve " \o args.spender \o " to spend "
                       \o OrString(args.amount, Some("unlimited"))[1]
                       \o " of token " \o args.token_address]

TokenApproveJson(args, txData) ==
    [chain |-> args.chain, action |-> "approve", to |-> args.token_address,
     data |-> txData, value |-> "0",
     description |-> "Approve " \o args.spender \o " to spend "
                       \o OrString(args.amount, Some("unlimited"))[1]
                       \o " of token " \o args.token_address]

\* the whole handler: it awaits nothing
TokenApproveRun(v, gp) ==
    IF gp.threw THEN Failed(v, gp.message)
    ELSE LET c == getContract(v.args.token_address, gp.provider)
             w == [v EXCEPT !.provider = gp.provider]
             given == v.args.amount # Undefined /\ v.args.amount[1] # ""
             parsed == IF given THEN StringToBigInt(v.args.amount[1])
                       ELSE [threw |-> FALSE, message |-> "", value |-> MaxUint256]
             enc == EncodeTyped("approve", <<"address", "uint256">>,
                                <<v.args.spender, parsed.value>>)
         IN  IF c.threw THEN Failed(w, c.message)
             ELSE IF parsed.threw THEN Failed(w, parsed.message)
             ELSE IF enc.threw THEN Failed(w, enc.message)
             ELSE Returned(w, TokenApproveJson(v.args, enc.data))

TokenApprove(i) ==
    /\ CanStart(i)
    /\ \E chain \in BuilderChains, addr \in AddressInputs, amount \in ApproveAmountInputs :
          LET args == [chain |-> chain, token_address |-> addr, spender |-> Receiver,
                       amount |-> amount, rpc_url |-> Undefined]
              gp   == getProvider(chain, Undefined, providerCache, constructed)
              v    == [IdleInv EXCEPT !.tool = "fluid_build_token_approve", !.args = args]
          IN  /\ providerCache' = gp.cache
              /\ constructed' = gp.made
              /\ inv' = [inv EXCEPT ![i] = TokenApproveRun(v, gp)]
    /\ UNCHANGED <<numVars, server>>

(***************************************************************************)
(* vault-write: fluid_build_vault_t1_operate                               *)
(***************************************************************************)
INT256_MIN ==
    "-57896044618658097711785492504343953926634992332820282019728792003956564819968"

NftIdInputs == {0, 7}

VaultT1Json(args, txData, value, newColValue, newDebtValue) ==
    [chain |-> args.chain, action |-> "vault_t1_operate", to |-> args.vault_address,
     data |-> txData, value |-> value, nftId |-> args.nft_id,
     newCol |-> newColValue, newDebt |-> newDebtValue, receiver |-> args.receiver,
     description |-> "Vault T1 operate: nftId=" \o ToString(args.nft_id)
                       \o ", collateral=" \o newColValue \o ", debt=" \o newDebtValue]

\* ether sent along for any collateral change that is not zero
VaultT1Run_valueForWithdrawals(v, gp) ==
    IF gp.threw THEN Failed(v, gp.message)
    ELSE LET c == getContract(v.args.vault_address, gp.provider)
             w == [v EXCEPT !.provider = gp.provider]
             newColValue  == IF v.args.new_col = "INT256_MIN" THEN INT256_MIN
                             ELSE v.args.new_col
             newDebtValue == IF v.args.new_debt = "INT256_MIN" THEN INT256_MIN
                             ELSE v.args.new_debt
             col  == StringToBigInt(newColValue)
             debt == StringToBigInt(newDebtValue)
             enc  == EncodeTyped("operate", <<"uint256", "int256", "int256", "address">>,
                                 <<NumberToBigInt(v.args.nft_id), col.value, debt.value,
                                   v.args.receiver>>)
             value == IF newColValue # "INT256_MIN" /\ col.value # Zero
                      THEN newColValue ELSE "0"
         IN  IF c.threw THEN Failed(w, c.message)
             ELSE IF col.threw THEN Failed(w, col.message)
             ELSE IF debt.threw THEN Failed(w, debt.message)
             ELSE IF enc.threw THEN Failed(w, enc.message)
             ELSE Returned(w, VaultT1Json(v.args, enc.data, value, newColValue,
                                          newDebtValue))

\* the whole handler: it awaits nothing
VaultT1Run(v, gp) ==
    IF gp.threw THEN Failed(v, gp.message)
    ELSE LET c == getContract(v.args.vault_address, gp.provider)
             w == [v EXCEPT !.provider = gp.provider]
             newColValue  == IF v.args.new_col = "INT256_MIN" THEN INT256_MIN
                             ELSE v.args.new_col
             newDebtValue == IF v.args.new_debt = "INT256_MIN" THEN INT256_MIN
                             ELSE v.args.new_debt
             col  == StringToBigInt(newColValue)
             debt == StringToBigInt(newDebtValue)
             enc  == EncodeTyped("operate", <<"uint256", "int256", "int256", "address">>,
                                 <<NumberToBigInt(v.args.nft_id), col.value, debt.value,
                                   v.args.receiver>>)
             value == IF newColValue # "INT256_MIN" /\ IsPositive(col.value)
                      THEN newColValue ELSE "0"
         IN  IF c.threw THEN Failed(w, c.message)
             ELSE IF col.threw THEN Failed(w, col.message)
             ELSE IF debt.threw THEN Failed(w, debt.message)
             ELSE IF enc.threw THEN Failed(w, enc.message)
             ELSE Returned(w, VaultT1Json(v.args, enc.data, value, newColValue,
                                          newDebtValue))

VaultT1Operate(i) ==
    /\ CanStart(i)
    /\ \E chain \in BuilderChains, nft \in NftIdInputs,
          col \in {"INT256_MIN", "1000", "-5", "0", "abc"},
          debt \in {"INT256_MIN", "0", "500"} :
          LET args == [chain |-> chain, vault_address |-> GoodAddress, nft_id |-> nft,
                       new_col |-> col, new_debt |-> debt, receiver |-> Receiver,
                       rpc_url |-> Undefined]
              gp   == getProvider(chain, Undefined, providerCache, constructed)
              v    == [IdleInv EXCEPT !.tool = "fluid_build_vault_t1_operate",
                                      !.args = args]
          IN  /\ providerCache' = gp.cache
              /\ constructed' = gp.made
              /\ inv' = [inv EXCEPT ![i] = VaultT1Run(v, gp)]
    /\ UNCHANGED <<numVars, server>>

(***************************************************************************)
(* vault-write: fluid_build_vault_t2_operate, _t3_operate and _t4_operate  *)
(***************************************************************************)
\* BigInt(...) of each text in the order the array literal evaluates them;
\* the first text that is no integer throws
BigIntEach(texts) ==
    LET parsed == [k \in 1..Len(texts) |-> StringToBigInt(texts[k])]
        bad    == {k \in 1..Len(texts) : parsed[k].threw}
        first  == CHOOSE k \in bad : \A j \in bad : k <= j
    IN  IF bad = {} THEN [threw |-> FALSE, message |-> "",
                          values |-> [k \in 1..Len(texts) |-> parsed[k].value]]
        ELSE [threw |-> TRUE, message |-> parsed[first].message, values |-> <<>>]

\* what the three handlers share up to their response: provider, contract,
\* the BigInt conversions and the encoding of operate(nft_id, ..., receiver)
VaultOperateEncode(v, gp, texts, types) ==
    IF gp.threw THEN [inv |-> Failed(v, gp.message), data |-> NoJson]
    ELSE LET c == getContract(v.args.vault_address, gp.provider)
             w == [v EXCEPT !.provider = gp.provider]
             big == BigIntEach(texts)
             enc == EncodeTyped("operate", types,
                                <<NumberToBigInt(v.args.nft_id)>> \o big.values
                                    \o <<v.args.receiver>>)
         IN  IF c.threw THEN [inv |-> Failed(w, c.message), data |-> NoJson]
             ELSE IF big.threw THEN [inv |-> Failed(w, big.message), data |-> NoJson]
             ELSE IF enc.threw THEN [inv |-> Failed(w, enc.message), data |-> NoJson]
             ELSE [inv |-> w, data |-> enc.data]

VaultT2Json(args, txData) ==
    [chain |-> args.chain, action |-> "vault_t2_operate", to |-> args.vault_address,
     data |-> txData, value |-> "0", nftId |-> args.nft_id,
     colToken0 |-> args.new_col_token0, colToken1 |-> args.new_col_token1,
     colSharesMinMax |-> [min |-> args.col_shares_min, max |-> args.col_shares_max],
     newDebt |-> args.new_debt, receiver |-> args.receiver,
     description |-> "Vault T2 operate: nftId=" \o ToString(args.nft_id)
                       \o ", col0=" \o args.new_col_token0
                       \o ", col1=" \o args.new_col_token1
                       \o ", debt=" \o args.new_debt]

VaultT2Run(v, gp) ==
    LET a == v.args
        e == VaultOperateEncode(v, gp,
                <<a.new_col_token0, a.new_col_token1, a.col_shares_min, a.col_shares_max,
                  a.new_debt>>,
                <<"uint256", "uint256", "uint256", "uint256", "uint256", "int256",
                  "address">>)
    IN  IF e.inv.pc = "failed" THEN e.inv
        ELSE Returned(e.inv, VaultT2Json(a, e.data))

VaultT2Operate(i) ==
    /\ CanStart(i)
    /\ \E chain \in BuilderChains, nft \in NftIdInputs,
          col0 \in {"1000", "-1"}, debt \in {"500", "-5", "1e3"} :
          LET args == [chain |-> chain, vault_address |-> GoodAddress, nft_id |-> nft,
                       new_col_token0 |-> col0, new_col_token1 |-> "0",
                       col_shares_min |-> "1", col_shares_max |-> "2000",
                       new_debt |-> debt, receiver |-> Receiver, rpc_url |-> Undefined]
              gp   == getProvider(chain, Undefined, providerCache, constructed)
              v    == [IdleInv EXCEPT !.tool = "fluid_build_vault_t2_operate",
                                      !.args = args]
          IN  /\ providerCache' = gp.cache
              /\ constructed' = gp.made
              /\ inv' = [inv EXCEPT ![i] = VaultT2Run(v, gp)]
    /\ UNCHANGED <<numVars, server>>

VaultT3Json(args, txData) ==
    [chain |-> args.chain, action |-> "vault_t3_operate", to |-> args.vault_address,
     data |-> txData, value |-> "0", nftId |-> args.nft_id,
     newCol |-> args.new_col,
     debtToken0 |-> args.new_debt_token0, debtToken1 |-> args.new_debt_token1,
     debtSharesMinMax |-> [min |-> args.debt_shares_min, max |-> args.debt_shares_max],
     receiver |-> args.receiver,
     description |-> "Vault T3 operate: nftId=" \o ToString(args.nft_id)
                       \o ", col=" \o args.new_col
                       \o ", debt0=" \o args.new_debt_token0
                       \o ", debt1=" \o args.new_debt_token1]

VaultT3Run(v, gp) ==
    LET a == v.args
        e == VaultOperateEncode(v, gp,
                <<a.new_col, a.new_debt_token0, a.new_debt_token1, a.debt_shares_min,
                  a.debt_shares_max>>,
                <<"uint256", "int256", "int256", "int256", "uint256", "uint256",
                  "address">>)
    IN  IF e.inv.pc = "failed" THEN e.inv
        ELSE Returned(e.inv, VaultT3Json(a, e.data))

VaultT3Operate(i) ==
    /\ CanStart(i)
    /\ \E chain \in BuilderChains, nft \in NftIdInputs,
          col \in {"1000", "-1000"}, smin \in {"1", "-1"} :
          LET args == [chain |-> chain, vault_address |-> GoodAddress, nft_id |-> nft,
                       new_col |-> col, new_debt_token0 |-> "500",
                       new_debt_token1 |-> "0",
                       debt_shares_min |-> smin, debt_shares_max |-> "2000",
                       receiver |-> Receiver, rpc_url |-> Undefined]
              gp   == getProvider(chain, Undefined, providerCache, constructed)
              v    == [IdleInv EXCEPT !.tool = "fluid_build_vault_t3_operate",
                                      !.args = args]
          IN  /\ providerCache' = gp.cache
              /\ constructed' = gp.made
              /\ inv' = [inv EXCEPT ![i] = VaultT3Run(v, gp)]
    /\ UNCHANGED <<numVars, server>>

VaultT4Json(args, txData) ==
    [chain |-> args.chain, action |-> "vault_t4_operate", to |-> args.vault_address,
     data |-> txData, value |-> "0", nftId |-> args.nft_id,
     colToken0 |-> args.new_col_token0, colToken1 |-> args.new_col_token1,
     colSharesMinMax |-> [min |-> args.col_shares_min, max |-> args.col_shares_max],
     debtToken0 |-> args.new_debt_token0, debtToken1 |-> args.new_debt_token1,
     debtSharesMinMax |-> [min |-> args.debt_shares_min, max |-> args.debt_shares_max],
     receiver |-> args.receiver,
     description |-> "Vault T4 operate: nftId=" \o ToString(args.nft_id)
                       \o ", col0=" \o args.new_col_token0
                       \o ", col1=" \o args.new_col_token1
                       \o ", debt0=" \o args.new_debt_token0
                       \o ", debt1=" \o args.new_debt_token1]

VaultT4Run(v, gp) ==
    LET a == v.args
        e == VaultOperateEncode(v, gp,
                <<a.new_col_token0, a.new_col_token1, a.col_shares_min, a.col_shares_max,
                  a.new_debt_token0, a.new_debt_token1, a.debt_shares_min,
                  a.debt_shares_max>>,
                <<"uint256", "uint256", "uint256", "uint256", "uint256", "int256",
                  "int256", "uint256", "uint256", "address">>)
    IN  IF e.inv.pc = "failed" THEN e.inv
        ELSE Returned(e.inv, VaultT4Json(a, e.data))

VaultT4Operate(i) ==
    /\ CanStart(i)
    /\ \E chain \in BuilderChains, nft \in NftIdInputs,
          col1 \in {"0", "250"}, debt1 \in {"0", "-75", ""} :
          LET args == [chain |-> chain, vault_address |-> GoodAddress, nft_id |-> nft,
                       new_col_token0 |-> "1000", new_col_token1 |-> col1,
                       col_shares_min |-> "1", col_shares_max |-> "2000",
                       new_debt_token0 |-> "500", new_debt_token1 |-> debt1,
                       debt_shares_min |-> "1", debt_shares_max |-> "900",
                       receiver |-> Receiver, rpc_url |-> Undefined]
              gp   == getProvider(chain, Undefined, providerCache, constructed)
              v    == [IdleInv EXCEPT !.tool = "fluid_build_vault_t4_operate",
                                      !.args = args]
          IN  /\ providerCache' = gp.cache
              /\ constructed' = gp.made
              /\ inv' = [inv EXCEPT ![i] = VaultT4Run(v, gp)]
    /\ UNCHANGED <<numVars, server>>

(***************************************************************************)
(* vault-read: fluid_get_vault_type and fluid_get_all_vaults               *)
(***************************************************************************)
VAULT_TYPES == [t \in {10000, 20000, 30000, 40000} |->
                  CASE t = 10000 -> "T1" [] t = 20000 -> "T2"
                    [] t = 30000 -> "T3" [] t = 40000 -> "T4"]

GetVaultTypeJson(args, typeNum) ==
    [chain |-> args.chain, vault |-> args.vault_address,
     type |-> IF typeNum \in DOMAIN VAULT_TYPES THEN VAULT_TYPES[typeNum] ELSE "UNKNOWN",
     typeValue |-> typeNum]

GetVaultTypeStart(v, gp) ==
    IF gp.threw THEN Failed(v, gp.message)
    ELSE LET c == getContract(CONTRACTS.vaultResolver, gp.provider)
             w == [v EXCEPT !.provider = gp.provider]
         IN  IF c.threw THEN Failed(w, c.message)
             ELSE [w EXCEPT !.pc = "getVaultType",
                            !.calls = Issue(@, c.contract, "getVaultType",
                                            <<v.args.vault_address>>)]

\* the await of getVaultType has settled: no try/catch around it
GetVaultTypeFinish(v) ==
    LET call == v.calls[1]
    IN  IF call.status = "failed" THEN Failed(v, call.error)
        ELSE Returned(v, GetVaultTypeJson(v.args, call.value[1]))

GetVaultType(i) ==
    /\ CanStart(i)
    /\ \E chain \in ChainInputs, rpc \in RpcInputs :
          LET args == [chain |-> chain, vault_address |-> GoodAddress, rpc_url |-> rpc]
              gp   == getProvider(chain, rpc, providerCache, constructed)
              v    == [IdleInv EXCEPT !.tool = "fluid_get_vault_type", !.args = args]
          IN  /\ providerCache' = gp.cache
              /\ constructed' = gp.made
              /\ inv' = [inv EXCEPT ![i] = GetVaultTypeStart(v, gp)]
    /\ UNCHANGED <<numVars, server>>

GetVaultTypeReturns(i) ==
    /\ inv[i].tool = "fluid_get_vault_type"
    /\ inv[i].pc = "getVaultType"
    /\ \E typeRaw \in VaultTypeValues :
          inv' = [inv EXCEPT ![i] = GetVaultTypeFinish(Resolved(inv[i], 1, typeRaw))]
    /\ UNCHANGED <<providerCache, constructed, numVars, server>>

GetVaultTypeFails(i) ==
    /\ inv[i].tool = "fluid_get_vault_type"
    /\ inv[i].pc = "getVaultType"
    /\ \E error \in CallErrors :
          inv' = [inv EXCEPT ![i] = GetVaultTypeFinish(Rejected(inv[i], 1, error))]
    /\ UNCHANGED <<providerCache, constructed, numVars, server>>

\* one element of vaultsWithTypes: the try/catch around getVaultType(vault)
VaultWithType(vault, call) ==
    IF call.status = "ok"
    THEN LET typeNum == call.value[1]
         IN  [address |-> vault,
              type |-> IF typeNum \in DOMAIN VAULT_TYPES THEN VAULT_TYPES[typeNum]
                       ELSE "UNKNOWN(" \o ToString(typeNum) \o ")",
              typeValue |-> typeNum]
    ELSE [address |-> vault, type |-> "UNKNOWN", typeValue |-> 0]

GetAllVaultsJson(args, total, vaultsWithTypes) ==
    [chain |-> args.chain, totalVaults |-> total, vaults |-> vaultsWithTypes]

\* up to await Promise.all([getAllVaultsAddresses(), getTotalVaults()])
GetAllVaultsStart(v, gp) ==
    IF gp.threw THEN Failed(v, gp.message)
    ELSE LET c == getContract(CONTRACTS.vaultResolver, gp.provider)
             w == [v EXCEPT !.provider = gp.provider]
         IN  IF c.threw THEN Failed(w, c.message)
             ELSE [w EXCEPT
                     !.pc = "Promise.all",
                     !.locals = [resolver |-> c.contract],
                     !.calls = Issue(Issue(@, c.contract, "getAllVaultsAddresses", <<>>),
                                     c.contract, "getTotalVaults", <<>>)]

RECURSIVE IssueVaultTypes(_, _, _)
\* vaults.map(async (vault) => ... await resolver.getVaultType(vault) ...)
IssueVaultTypes(calls, resolver, vaults) ==
    IF Len(vaults) = 0 THEN calls
    ELSE IssueVaultTypes(Issue(calls, resolver, "getVaultType", <<Head(vaults)>>),
                         resolver, Tail(vaults))

\* the second Promise.all has settled: every getVaultType returned or was caught
GetAllVaultsFinish(v) ==
    LET vaults == v.calls[1].value[1]
        total  == v.calls[2].value[1]
    IN  Returned(v, GetAllVaultsJson(v.args, total,
                    [k \in 1..Len(vaults) |-> VaultWithType(vaults[k], v.calls[2 + k])]))

\* one of the two first calls has settled
GetAllVaultsFirst(v) ==
    IF \E k \in 1..2 : v.calls[k].status = "failed"
    THEN Failed(v, v.calls[CHOOSE k \in 1..2 : v.calls[k].status = "failed"].error)
    ELSE IF \E k \in 1..2 : v.calls[k].status = "pending" THEN v
    ELSE LET vaults == v.calls[1].value[1]
             w == [v EXCEPT !.pc = "getVaultType",
                            !.calls = IssueVaultTypes(@, v.locals.resolver, vaults)]
         IN  IF Len(vaults) = 0 THEN GetAllVaultsFinish(w) ELSE w

\* one getVaultType of the map has settled
GetAllVaultsSecond(v) ==
    IF \E k \in 3..Len(v.calls) : v.calls[k].status = "pending" THEN v
    ELSE GetAllVaultsFinish(v)

GetAllVaults(i) ==
    /\ CanStart(i)
    /\ \E chain \in {"Ethereum", "solana"}, rpc \in {Undefined} :
          LET args == [chain |-> chain, rpc_url |-> rpc]
              gp   == getProvider(chain, rpc, providerCache, constructed)
              v    == [IdleInv EXCEPT !.tool = "fluid_get_all_vaults", !.args = args]
          IN  /\ providerCache' = gp.cache
              /\ constructed' = gp.made
              /\ inv' = [inv EXCEPT ![i] = GetAllVaultsStart(v, gp)]
    /\ UNCHANGED <<numVars, server>>

GetAllVaultsAddressesReturns(i) ==
    /\ inv[i].tool = "fluid_get_all_vaults"
    /\ inv[i].pc = "Promise.all"
    /\ inv[i].calls[1].status = "pending"
    /\ \E vaults \in VaultLists :
          inv' = [inv EXCEPT ![i] = GetAllVaultsFirst(Resolved(inv[i], 1, vaults))]
    /\ UNCHANGED <<providerCache, constructed, numVars, server>>

GetTotalVaultsReturns(i) ==
    /\ inv[i].tool = "fluid_get_all_vaults"
    /\ inv[i].pc = "Promise.all"
    /\ inv[i].calls[2].status = "pending"
    /\ \E total \in TotalValues :
          inv' = [inv EXCEPT ![i] = GetAllVaultsFirst(Resolved(inv[i], 2, total))]
    /\ UNCHANGED <<providerCache, constructed, numVars, server>>

GetAllVaultsFirstFails(i) ==
    /\ inv[i].tool = "fluid_get_all_vaults"
    /\ inv[i].pc = "Promise.all"
    /\ \E k \in 1..2, error \in CallErrors :
          /\ inv[i].calls[k].status = "pending"
          /\ inv' = [inv EXCEPT ![i] = GetAllVaultsFirst(Rejected(inv[i], k, error))]
    /\ UNCHANGED <<providerCache, constructed, numVars, server>>

VaultTypeOfReturns(i) ==
    /\ inv[i].tool = "fluid_get_all_vaults"
    /\ inv[i].pc = "getVaultType"
    /\ \E k \in 3..Len(inv[i].calls), typeRaw \in VaultTypeValues :
          /\ inv[i].calls[k].status = "pending"
          /\ inv' = [inv EXCEPT ![i] = GetAllVaultsSecond(Resolved(inv[i], k, typeRaw))]
    /\ UNCHANGED <<providerCache, constructed, numVars, server>>

VaultTypeOfFails(i) ==
    /\ inv[i].tool = "fluid_get_all_vaults"
    /\ inv[i].pc = "getVaultType"
    /\ \E k \in 3..Len(inv[i].calls), error \in CallErrors :
          /\ inv[i].calls[k].status = "pending"
          /\ inv' = [inv EXCEPT ![i] = GetAllVaultsSecond(Rejected(inv[i], k, error))]
    /\ UNCHANGED <<providerCache, constructed, numVars, server>>

(***************************************************************************)
(* dex-write: fluid_build_swap_exact_input                                 *)
(***************************************************************************)
SlippageInputs == {Undefined}

SwapInJson(args, reserves, estimatedOut, slippageBps, amountOutMin, txData, value) ==
    [chain |-> args.chain, action |-> "swapIn", to |-> args.pool_address,
     data |-> txData, value |-> value,
     direction |-> IF args.swap_0_to_1 THEN "token0 -> token1" ELSE "token1 -> token0",
     amountIn |-> args.amount_in,
     estimatedAmountOut |-> ToString(estimatedOut),
     amountOutMin |-> ToString(amountOutMin),
     slippageBps |-> slippageBps,
     token0 |-> reserves.token0, token1 |-> reserves.token1,
     description |-> "Swap " \o args.amount_in \o " (exact input) on pool "
                       \o args.pool_address \o ". Min output: " \o ToString(amountOutMin),
     note |-> "If the input token is ERC20, approve the pool contract first using fluid_build_token_approve."]

\* up to await resolver.getPoolReservesAdjusted(args.pool_address)
SwapInStart(v, gp) ==
    LET cfg == getChainConfig(v.args.chain)
    IN  IF cfg.threw THEN Failed(v, cfg.message)
        ELSE IF gp.threw THEN Failed(v, gp.message)
        ELSE LET pool     == getContract(v.args.pool_address, gp.provider)
                 resolver == getContract(CONTRACTS.dexReservesResolver, gp.provider)
                 w        == [v EXCEPT !.provider = gp.provider]
             IN  IF pool.threw THEN Failed(w, pool.message)
                 ELSE IF resolver.threw THEN Failed(w, resolver.message)
                 ELSE [w EXCEPT
                         !.pc = "getPoolReservesAdjusted",
                         !.locals = [pool |-> pool.contract, resolver |-> resolver.contract],
                         !.calls = Issue(@, resolver.contract, "getPoolReservesAdjusted",
                                         <<v.args.pool_address>>)]

\* getPoolReservesAdjusted has settled; on success estimateSwapIn goes out
SwapInAfterReserves(v) ==
    LET call == v.calls[1]
    IN  IF call.status = "failed" THEN Failed(v, call.error)
        ELSE LET reserves == call.value[1]
             IN  [v EXCEPT
                    !.pc = "estimateSwapIn",
                    !.calls = Issue(@, v.locals.resolver, "estimateSwapIn",
                                    <<v.args.pool_address, v.args.swap_0_to_1,
                                      BigInt(v.args.amount_in),
                                      reserves.colReserves0Adjusted,
                                      reserves.colReserves1Adjusted,
                                      reserves.debtReserves0Adjusted,
                                      reserves.debtReserves1Adjusted>>)]

\* the calldata encoded with the estimate itself, not the reduced minimum
SwapInBuild_estimateEncoded(v, estimatedOut) ==
    LET reserves     == v.calls[1].value[1]
        slippageBps  == OrNumber(v.args.slippage_bps, 50)
        amountOutMin == BigIntDiv(estimatedOut * (10000 - slippageBps), 10000)
        txData       == EncodeFunctionData("swapIn",
                            <<v.args.swap_0_to_1, BigInt(v.args.amount_in),
                              estimatedOut, v.args.receiver>>)
        inputToken   == IF v.args.swap_0_to_1 THEN reserves.token0 ELSE reserves.token1
        value        == IF toLowerCase(inputToken) = toLowerCase(NativeToken)
                        THEN v.args.amount_in ELSE "0"
    IN  Returned(v, SwapInJson(v.args, reserves, estimatedOut, slippageBps,
                               amountOutMin, txData, value))

\* the value taken from the token the swap pays out, not the one it takes in
SwapInBuild_outputSideValue(v, estimatedOut) ==
    LET reserves     == v.calls[1].value[1]
        slippageBps  == OrNumber(v.args.slippage_bps, 50)
        amountOutMin == BigIntDiv(estimatedOut * (10000 - slippageBps), 10000)
        txData       == EncodeFunctionData("swapIn",
                            <<v.args.swap_0_to_1, BigInt(v.args.amount_in),
                              amountOutMin, v.args.receiver>>)
        outputToken  == IF v.args.swap_0_to_1 THEN reserves.token1 ELSE reserves.token0
        value        == IF toLowerCase(outputToken) = toLowerCase(NativeToken)
                        THEN v.args.amount_in ELSE "0"
    IN  Returned(v, SwapInJson(v.args, reserves, estimatedOut, slippageBps,
                               amountOutMin, txData, value))

\* the rest of the handler once the estimate is known
SwapInBuild(v, estimatedOut) ==
    LET reserves     == v.calls[1].value[1]
        slippageBps  == OrNumber(v.args.slippage_bps, 50)
        amountOutMin == BigIntDiv(estimatedOut * (10000 - slippageBps), 10000)
        txData       == EncodeFunctionData("swapIn",
                            <<v.args.swap_0_to_1, BigInt(v.args.amount_in),
                              amountOutMin, v.args.receiver>>)
        inputToken   == IF v.args.swap_0_to_1 THEN reserves.token0 ELSE reserves.token1
        value        == IF toLowerCase(inputToken) = toLowerCase(NativeToken)
                        THEN v.args.amount_in ELSE "0"
    IN  Returned(v, SwapInJson(v.args, reserves, estimatedOut, slippageBps,
                               amountOutMin, txData, value))

\* a failed estimate taken as an estimate of 0
SwapInAfterEstimate_swallow(v) ==
    LET call == v.calls[2]
    IN  IF call.status = "failed" THEN SwapInBuild(v, 0)
        ELSE SwapInBuild(v, call.value[1])

\* estimateSwapIn has settled: no try/catch around it
SwapInAfterEstimate(v) ==
    LET call == v.calls[2]
    IN  IF call.status = "failed" THEN Failed(v, call.error)
        ELSE SwapInBuild(v, call.value[1])

SwapExactInput(i) ==
    /\ CanStart(i)
    /\ \E chain \in {"ethereum", "solana"}, rpc \in {Some("https://rpc.example")},
          addr \in {GoodAddress}, dir \in BOOLEAN, amount \in AmountInputs,
          slippage \in SlippageInputs :
          LET args == [chain |-> chain, pool_address |-> addr, swap_0_to_1 |-> dir,
                       amount_in |-> amount, slippage_bps |-> slippage,
                       receiver |-> Receiver, rpc_url |-> rpc]
              gp   == getProvider(chain, rpc, providerCache, constructed)
              v    == [IdleInv EXCEPT !.tool = "fluid_build_swap_exact_input",
                                      !.args = args]
          IN  /\ providerCache' = gp.cache
              /\ constructed' = gp.made
              /\ inv' = [inv EXCEPT ![i] = SwapInStart(v, gp)]
    /\ UNCHANGED <<numVars, server>>

SwapReservesReturns(i) ==
    /\ inv[i].tool = "fluid_build_swap_exact_input"
    /\ inv[i].pc = "getPoolReservesAdjusted"
    /\ \E reserves \in ReservesValues :
          inv' = [inv EXCEPT ![i] = SwapInAfterReserves(Resolved(inv[i], 1, reserves))]
    /\ UNCHANGED <<providerCache, constructed, numVars, server>>

SwapReservesFails(i) ==
    /\ inv[i].tool = "fluid_build_swap_exact_input"
    /\ inv[i].pc = "getPoolReservesAdjusted"
    /\ \E error \in CallErrors :
          inv' = [inv EXCEPT ![i] = SwapInAfterReserves(Rejected(inv[i], 1, error))]
    /\ UNCHANGED <<providerCache, constructed, numVars, server>>

SwapEstimateReturns(i) ==
    /\ inv[i].tool = "fluid_build_swap_exact_input"
    /\ inv[i].pc = "estimateSwapIn"
    /\ \E estimatedOut \in EstimateValues :
          inv' = [inv EXCEPT ![i] = SwapInAfterEstimate(Resolved(inv[i], 2, estimatedOut))]
    /\ UNCHANGED <<providerCache, constructed, numVars, server>>

SwapEstimateFails(i) ==
    /\ inv[i].tool = "fluid_build_swap_exact_input"
    /\ inv[i].pc = "estimateSwapIn"
    /\ \E error \in CallErrors :
          inv' = [inv EXCEPT ![i] = SwapInAfterEstimate(Rejected(inv[i], 2, error))]
    /\ UNCHANGED <<providerCache, constructed, numVars, server>>

(***************************************************************************)
(* dex-write: fluid_build_swap_exact_output                                *)
(***************************************************************************)
SwapOutJson(args, reserves, estimatedIn, slippageBps, amountInMax, txData, value) ==
    [chain |-> args.chain, action |-> "swapOut", to |-> args.pool_address,
     data |-> txData, value |-> value,
     direction |-> IF args.swap_0_to_1 THEN "token0 -> token1" ELSE "token1 -> token0",
     desiredAmountOut |-> args.amount_out,
     estimatedAmountIn |-> ToString(estimatedIn),
     amountInMax |-> ToString(amountInMax),
     slippageBps |-> slippageBps,
     token0 |-> reserves.token0, token1 |-> reserves.token1,
     description |-> "Swap for exact " \o args.amount_out \o " output on pool "
                       \o args.pool_address \o ". Max input: " \o ToString(amountInMax)]

\* up to await resolver.getPoolReservesAdjusted(args.pool_address)
SwapOutStart(v, gp) ==
    LET cfg == getChainConfig(v.args.chain)
    IN  IF cfg.threw THEN Failed(v, cfg.message)
        ELSE IF gp.threw THEN Failed(v, gp.message)
        ELSE LET pool     == getContract(v.args.pool_address, gp.provider)
                 resolver == getContract(CONTRACTS.dexReservesResolver, gp.provider)
                 w        == [v EXCEPT !.provider = gp.provider]
             IN  IF pool.threw THEN Failed(w, pool.message)
                 ELSE IF resolver.threw THEN Failed(w, resolver.message)
                 ELSE [w EXCEPT
                         !.pc = "getPoolReservesAdjusted",
                         !.locals = [pool |-> pool.contract, resolver |-> resolver.contract],
                         !.calls = Issue(@, resolver.contract, "getPoolReservesAdjusted",
                                         <<v.args.pool_address>>)]

\* getPoolReservesAdjusted has settled; on success estimateSwapOut goes out
SwapOutAfterReserves(v) ==
    LET call == v.calls[1]
    IN  IF call.status = "failed" THEN Failed(v, call.error)
        ELSE LET reserves == call.value[1]
             IN  [v EXCEPT
                    !.pc = "estimateSwapOut",
                    !.calls = Issue(@, v.locals.resolver, "estimateSwapOut",
                                    <<v.args.pool_address, v.args.swap_0_to_1,
                                      BigInt(v.args.amount_out),
                                      reserves.colReserves0Adjusted,
                                      reserves.colReserves1Adjusted,
                                      reserves.debtReserves0Adjusted,
                                      reserves.debtReserves1Adjusted>>)]

\* the estimate itself, without the tolerance, sent as the native value
SwapOutBuild_estimateAsValue(v, estimatedIn) ==
    LET reserves    == v.calls[1].value[1]
        slippageBps == OrNumber(v.args.slippage_bps, 50)
        amountInMax == BigIntDiv(estimatedIn * (10000 + slippageBps), 10000)
        txData      == EncodeFunctionData("swapOut",
                           <<v.args.swap_0_to_1, BigInt(v.args.amount_out),
                             amountInMax, v.args.receiver>>)
        inputToken  == IF v.args.swap_0_to_1 THEN reserves.token0 ELSE reserves.token1
        value       == IF toLowerCase(inputToken) = toLowerCase(NativeToken)
                       THEN ToString(estimatedIn) ELSE "0"
    IN  Returned(v, SwapOutJson(v.args, reserves, estimatedIn, slippageBps,
                                amountInMax, txData, value))

\* the rest of the handler once the estimate is known
SwapOutBuild(v, estimatedIn) ==
    LET reserves    == v.calls[1].value[1]
        slippageBps == OrNumber(v.args.slippage_bps, 50)
        amountInMax == BigIntDiv(estimatedIn * (10000 + slippageBps), 10000)
        txData      == EncodeFunctionData("swapOut",
                           <<v.args.swap_0_to_1, BigInt(v.args.amount_out),
                             amountInMax, v.args.receiver>>)
        inputToken  == IF v.args.swap_0_to_1 THEN reserves.token0 ELSE reserves.token1
        value       == IF toLowerCase(inputToken) = toLowerCase(NativeToken)
                       THEN ToString(amountInMax) ELSE "0"
    IN  Returned(v, SwapOutJson(v.args, reserves, estimatedIn, slippageBps,
                                amountInMax, txData, value))

\* estimateSwapOut has settled: no try/catch around it
SwapOutAfterEstimate(v) ==
    LET call == v.calls[2]
    IN  IF call.status = "failed" THEN Failed(v, call.error)
        ELSE SwapOutBuild(v, call.value[1])

SwapExactOutput(i) ==
    /\ CanStart(i)
    /\ \E chain \in {"ethereum", "solana"}, rpc \in {Undefined},
          addr \in AddressInputs, dir \in BOOLEAN, amount \in AmountInputs,
          slippage \in SlippageInputs :
          LET args == [chain |-> chain, pool_address |-> addr, swap_0_to_1 |-> dir,
                       amount_out |-> amount, slippage_bps |-> slippage,
                       receiver |-> Receiver, rpc_url |-> rpc]
              gp   == getProvider(chain, rpc, providerCache, constructed)
              v    == [IdleInv EXCEPT !.tool = "fluid_build_swap_exact_output",
                                      !.args = args]
          IN  /\ providerCache' = gp.cache
              /\ constructed' = gp.made
              /\ inv' = [inv EXCEPT ![i] = SwapOutStart(v, gp)]
    /\ UNCHANGED <<numVars, server>>

SwapOutReservesReturns(i) ==
    /\ inv[i].tool = "fluid_build_swap_exact_output"
    /\ inv[i].pc = "getPoolReservesAdjusted"
    /\ \E reserves \in ReservesValues :
          inv' = [inv EXCEPT ![i] = SwapOutAfterReserves(Resolved(inv[i], 1, reserves))]
    /\ UNCHANGED <<providerCache, constructed, numVars, server>>

SwapOutReservesFails(i) ==
    /\ inv[i].tool = "fluid_build_swap_exact_output"
    /\ inv[i].pc = "getPoolReservesAdjusted"
    /\ \E error \in CallErrors :
          inv' = [inv EXCEPT ![i] = SwapOutAfterReserves(Rejected(inv[i], 1, error))]
    /\ UNCHANGED <<providerCache, constructed, numVars, server>>

SwapOutEstimateReturns(i) ==
    /\ inv[i].tool = "fluid_build_swap_exact_output"
    /\ inv[i].pc = "estimateSwapOut"
    /\ \E estimatedIn \in EstimateValues :
          inv' = [inv EXCEPT ![i] = SwapOutAfterEstimate(Resolved(inv[i], 2, estimatedIn))]
    /\ UNCHANGED <<providerCache, constructed, numVars, server>>

SwapOutEstimateFails(i) ==
    /\ inv[i].tool = "fluid_build_swap_exact_output"
    /\ inv[i].pc = "estimateSwapOut"
    /\ \E error \in CallErrors :
          inv' = [inv EXCEPT ![i] = SwapOutAfterEstimate(Rejected(inv[i], 2, error))]
    /\ UNCHANGED <<providerCache, constructed, numVars, server>>

(***************************************************************************)
(* dex-read: fluid_estimate_swap_in                                        *)
(***************************************************************************)
EstimateInJson(args, reserves, estimate) ==
    [chain |-> args.chain, pool |-> args.pool_address,
     direction |-> IF args.swap_0_to_1 THEN "token0 -> token1" ELSE "token1 -> token0",
     amountIn |-> args.amount_in,
     estimatedAmountOut |-> ToString(estimate),
     token0 |-> reserves.token0, token1 |-> reserves.token1]

\* up to await resolver.getPoolReservesAdjusted(args.pool_address)
EstimateInStart(v, gp) ==
    LET cfg == getChainConfig(v.args.chain)
    IN  IF cfg.threw THEN Failed(v, cfg.message)
        ELSE IF gp.threw THEN Failed(v, gp.message)
        ELSE LET resolver == getContract(CONTRACTS.dexReservesResolver, gp.provider)
                 w        == [v EXCEPT !.provider = gp.provider]
             IN  IF resolver.threw THEN Failed(w, resolver.message)
                 ELSE [w EXCEPT
                         !.pc = "getPoolReservesAdjusted",
                         !.locals = [resolver |-> resolver.contract],
                         !.calls = Issue(@, resolver.contract, "getPoolReservesAdjusted",
                                         <<v.args.pool_address>>)]

\* the estimate asked for empty reserves instead of the fetched ones
EstimateInAfterReserves_noReserves(v) ==
    LET call == v.calls[1]
    IN  IF call.status = "failed" THEN Failed(v, call.error)
        ELSE [v EXCEPT
                !.pc = "estimateSwapIn",
                !.calls = Issue(@, v.locals.resolver, "estimateSwapIn",
                                <<v.args.pool_address, v.args.swap_0_to_1,
                                  BigInt(v.args.amount_in), 0, 0, 0, 0>>)]

\* getPoolReservesAdjusted has settled; on success estimateSwapIn goes out
EstimateInAfterReserves(v) ==
    LET call == v.calls[1]
    IN  IF call.status = "failed" THEN Failed(v, call.error)
        ELSE LET reserves == call.value[1]
             IN  [v EXCEPT
                    !.pc = "estimateSwapIn",
                    !.calls = Issue(@, v.locals.resolver, "estimateSwapIn",
                                    <<v.args.pool_address, v.args.swap_0_to_1,
                                      BigInt(v.args.amount_in),
                                      reserves.colReserves0Adjusted,
                                      reserves.colReserves1Adjusted,
                                      reserves.debtReserves0Adjusted,
                                      reserves.debtReserves1Adjusted>>)]

\* a failed estimateSwapIn asked once more
EstimateInAfterEstimate_retry(v) ==
    LET call == v.calls[2]
    IN  IF call.status = "failed"
        THEN IF Len(v.calls) = 2
             THEN [v EXCEPT !.calls = Issue(@, v.locals.resolver, call.method, call.args)]
             ELSE Failed(v, call.error)
        ELSE Returned(v, EstimateInJson(v.args, v.calls[1].value[1], call.value[1]))

\* estimateSwapIn has settled
EstimateInAfterEstimate(v) ==
    LET call == v.calls[2]
    IN  IF call.status = "failed" THEN Failed(v, call.error)
        ELSE Returned(v, EstimateInJson(v.args, v.calls[1].value[1], call.value[1]))

EstimateSwapIn(i) ==
    /\ CanStart(i)
    /\ \E chain \in BuilderChains, dir \in BOOLEAN, amount \in AmountInputs :
          LET args == [chain |-> chain, pool_address |-> GoodAddress,
                       swap_0_to_1 |-> dir, amount_in |-> amount, rpc_url |-> Undefined]
              gp   == getProvider(chain, Undefined, providerCache, constructed)
              v    == [IdleInv EXCEPT !.tool = "fluid_estimate_swap_in", !.args = args]
          IN  /\ providerCache' = gp.cache
              /\ constructed' = gp.made
              /\ inv' = [inv EXCEPT ![i] = EstimateInStart(v, gp)]
    /\ UNCHANGED <<numVars, server>>

EstimateInReservesReturns(i) ==
    /\ inv[i].tool = "fluid_estimate_swap_in"
    /\ inv[i].pc = "getPoolReservesAdjusted"
    /\ \E reserves \in ReservesValues :
          inv' = [inv EXCEPT ![i] = EstimateInAfterReserves(Resolved(inv[i], 1, reserves))]
    /\ UNCHANGED <<providerCache, constructed, numVars, server>>

EstimateInReservesFails(i) ==
    /\ inv[i].tool = "fluid_estimate_swap_in"
    /\ inv[i].pc = "getPoolReservesAdjusted"
    /\ \E error \in CallErrors :
          inv' = [inv EXCEPT ![i] = EstimateInAfterReserves(Rejected(inv[i], 1, error))]
    /\ UNCHANGED <<providerCache, constructed, numVars, server>>

EstimateInEstimateReturns(i) ==
    /\ inv[i].tool = "fluid_estimate_swap_in"
    /\ inv[i].pc = "estimateSwapIn"
    /\ \E estimate \in EstimateValues :
          inv' = [inv EXCEPT ![i] = EstimateInAfterEstimate(Resolved(inv[i], 2, estimate))]
    /\ UNCHANGED <<providerCache, constructed, numVars, server>>

EstimateInEstimateFails(i) ==
    /\ inv[i].tool = "fluid_estimate_swap_in"
    /\ inv[i].pc = "estimateSwapIn"
    /\ \E error \in CallErrors :
          inv' = [inv EXCEPT ![i] = EstimateInAfterEstimate(Rejected(inv[i], 2, error))]
    /\ UNCHANGED <<providerCache, constructed, numVars, server>>

(***************************************************************************)
(* dex-read: fluid_estimate_swap_out                                       *)
(***************************************************************************)
EstimateOutJson(args, reserves, estimate) ==
    [chain |-> args.chain, pool |-> args.pool_address,
     direction |-> IF args.swap_0_to_1 THEN "token0 -> token1" ELSE "token1 -> token0",
     desiredAmountOut |-> args.amount_out,
     estimatedAmountIn |-> ToString(estimate),
     token0 |-> reserves.token0, token1 |-> reserves.token1]

\* up to await resolver.getPoolReservesAdjusted(args.pool_address)
EstimateOutStart(v, gp) ==
    LET cfg == getChainConfig(v.args.chain)
    IN  IF cfg.threw THEN Failed(v, cfg.message)
        ELSE IF gp.threw THEN Failed(v, gp.message)
        ELSE LET resolver == getContract(CONTRACTS.dexReservesResolver, gp.provider)
                 w        == [v EXCEPT !.provider = gp.provider]
             IN  IF resolver.threw THEN Failed(w, resolver.message)
                 ELSE [w EXCEPT
                         !.pc = "getPoolReservesAdjusted",
                         !.locals = [resolver |-> resolver.contract],
                         !.calls = Issue(@, resolver.contract, "getPoolReservesAdjusted",
                                         <<v.args.pool_address>>)]

\* getPoolReservesAdjusted has settled; on success estimateSwapOut goes out
EstimateOutAfterReserves(v) ==
    LET call == v.calls[1]
    IN  IF call.status = "failed" THEN Failed(v, call.error)
        ELSE LET reserves == call.value[1]
             IN  [v EXCEPT
                    !.pc = "estimateSwapOut",
                    !.calls = Issue(@, v.locals.resolver, "estimateSwapOut",
                                    <<v.args.pool_address, v.args.swap_0_to_1,
                                      BigInt(v.args.amount_out),
                                      reserves.colReserves0Adjusted,
                                      reserves.colReserves1Adjusted,
                                      reserves.debtReserves0Adjusted,
                                      reserves.debtReserves1Adjusted>>)]

\* estimateSwapOut has settled
EstimateOutAfterEstimate(v) ==
    LET call == v.calls[2]
    IN  IF call.status = "failed" THEN Failed(v, call.error)
        ELSE Returned(v, EstimateOutJson(v.args, v.calls[1].value[1], call.value[1]))

EstimateSwapOut(i) ==
    /\ CanStart(i)
    /\ \E chain \in BuilderChains, dir \in BOOLEAN, amount \in AmountInputs :
          LET args == [chain |-> chain, pool_address |-> GoodAddress,
                       swap_0_to_1 |-> dir, amount_out |-> amount, rpc_url |-> Undefined]
              gp   == getProvider(chain, Undefined, providerCache, constructed)
              v    == [IdleInv EXCEPT !.tool = "fluid_estimate_swap_out", !.args = args]
          IN  /\ providerCache' = gp.cache
              /\ constructed' = gp.made
              /\ inv' = [inv EXCEPT ![i] = EstimateOutStart(v, gp)]
    /\ UNCHANGED <<numVars, server>>

EstimateOutReservesReturns(i) ==
    /\ inv[i].tool = "fluid_estimate_swap_out"
    /\ inv[i].pc = "getPoolReservesAdjusted"
    /\ \E reserves \in ReservesValues :
          inv' = [inv EXCEPT ![i] = EstimateOutAfterReserves(Resolved(inv[i], 1, reserves))]
    /\ UNCHANGED <<providerCache, constructed, numVars, server>>

EstimateOutReservesFails(i) ==
    /\ inv[i].tool = "fluid_estimate_swap_out"
    /\ inv[i].pc = "getPoolReservesAdjusted"
    /\ \E error \in CallErrors :
          inv' = [inv EXCEPT ![i] = EstimateOutAfterReserves(Rejected(inv[i], 1, error))]
    /\ UNCHANGED <<providerCache, constructed, numVars, server>>

EstimateOutEstimateReturns(i) ==
    /\ inv[i].tool = "fluid_estimate_swap_out"
    /\ inv[i].pc = "estimateSwapOut"
    /\ \E estimate \in EstimateValues :
          inv' = [inv EXCEPT ![i] = EstimateOutAfterEstimate(Resolved(inv[i], 2, estimate))]
    /\ UNCHANGED <<providerCache, constructed, numVars, server>>

EstimateOutEstimateFails(i) ==
    /\ inv[i].tool = "fluid_estimate_swap_out"
    /\ inv[i].pc = "estimateSwapOut"
    /\ \E error \in CallErrors :
          inv' = [inv EXCEPT ![i] = EstimateOutAfterEstimate(Rejected(inv[i], 2, error))]
    /\ UNCHANGED <<providerCache, constructed, numVars, server>>

(***************************************************************************)
(* liquidity-read, lending read, vault-read, dex-read: the tools that      *)
(* await one resolver call and serialise its answer                        *)
(***************************************************************************)
\* config: the handler calls getChainConfig before getProvider
LiquidityReads ==
    {[tool |-> "fluid_get_listed_tokens", config |-> TRUE,
      resolver |-> CONTRACTS.liquidityResolver, method |-> "listedTokens",
      params |-> <<>>],
     [tool |-> "fluid_get_token_rates", config |-> TRUE,
      resolver |-> CONTRACTS.liquidityResolver, method |-> "getOverallTokenData",
      params |-> <<"token_address">>],
     [tool |-> "fluid_get_all_tokens_data", config |-> TRUE,
      resolver |-> CONTRACTS.liquidityResolver, method |-> "getAllOverallTokensData",
      params |-> <<>>],
     [tool |-> "fluid_get_user_supply", config |-> TRUE,
      resolver |-> CONTRACTS.liquidityResolver, method |-> "getUserSupplyData",
      params |-> <<"user_address", "token_address">>],
     [tool |-> "fluid_get_user_borrow", config |-> TRUE,
      resolver |-> CONTRACTS.liquidityResolver, method |-> "getUserBorrowData",
      params |-> <<"user_address", "token_address">>],
     [tool |-> "fluid_get_revenue", config |-> TRUE,
      resolver |-> CONTRACTS.liquidityResolver, method |-> "getRevenue",
      params |-> <<"token_address">>]}

LendingReads ==
    {[tool |-> "fluid_get_all_ftokens", config |-> FALSE,
      resolver |-> CONTRACTS.lendingResolver, method |-> "getAllFTokens",
      params |-> <<>>],
     [tool |-> "fluid_get_ftoken_details", config |-> FALSE,
      resolver |-> CONTRACTS.lendingResolver, method |-> "getFTokenDetails",
      params |-> <<"ftoken_address">>],
     [tool |-> "fluid_get_all_ftokens_details", config |-> FALSE,
      resolver |-> CONTRACTS.lendingResolver, method |-> "getFTokensEntireData",
      params |-> <<>>],
     [tool |-> "fluid_get_user_lending_position", config |-> FALSE,
      resolver |-> CONTRACTS.lendingResolver, method |-> "getUserPosition",
      params |-> <<"ftoken_address", "user_address">>],
     [tool |-> "fluid_get_user_all_positions", config |-> FALSE,
      resolver |-> CONTRACTS.lendingResolver, method |-> "getUserPositions",
      params |-> <<"user_address">>],
     [tool |-> "fluid_get_previews", config |-> FALSE,
      resolver |-> CONTRACTS.lendingResolver, method |-> "getPreviews",
      params |-> <<"ftoken_address", "assets", "shares">>]}

VaultReads ==
    {[tool |-> "fluid_get_user_vault_nft_ids", config |-> FALSE,
      resolver |-> CONTRACTS.vaultResolver, method |-> "positionsNftIdOfUser",
      params |-> <<"user_address">>],
     [tool |-> "fluid_get_total_positions", config |-> FALSE,
      resolver |-> CONTRACTS.vaultResolver, method |-> "totalPositions",
      params |-> <<>>]}

DexReads ==
    {[tool |-> "fluid_get_pool_reserves", config |-> TRUE,
      resolver |-> CONTRACTS.dexResolver, method |-> "getPoolReserves",
      params |-> <<"pool_address">>],
     [tool |-> "fluid_get_all_pools_reserves", config |-> TRUE,
      resolver |-> CONTRACTS.dexResolver, method |-> "getAllPoolsReserves",
      params |-> <<>>],
     [tool |-> "fluid_get_pool_adjusted_reserves", config |-> TRUE,
      resolver |-> CONTRACTS.dexReservesResolver, method |-> "getPoolReservesAdjusted",
      params |-> <<"pool_address">>]}

SingleCallReads == LiquidityReads \cup LendingReads \cup VaultReads \cup DexReads

\* what the endpoint may answer to these calls; the fields of the answers
\* are not told apart
ReadAnswers == {"answer"}

\* args.assets ? args.assets.split(",").map((a) => BigInt(a.trim())) : []
\* for a text without commas
AmountList(text) == IF text = Undefined \/ text = Some("") THEN <<>> ELSE <<BigInt(text[1])>>

ReadArgument(name) ==
    CASE name = "assets" -> Some("1000")
      [] name = "shares" -> Undefined
      [] name = "user_address" -> Owner
      [] OTHER -> GoodAddress

ReadCallArgs(t, args) ==
    IF t.tool = "fluid_get_previews"
    THEN <<args.ftoken_address, AmountList(args.assets), AmountList(args.shares)>>
    ELSE [k \in 1..Len(t.params) |-> args[t.params[k]]]

\* the response: the chain as given and the serialised answer
SingleCallJson(args, answer) == [chain |-> args.chain, answer |-> answer]

\* up to the await of the resolver call
SingleCallStart(v, gp, t) ==
    LET cfg == getChainConfig(v.args.chain)
    IN  IF t.config /\ cfg.threw THEN Failed(v, cfg.message)
        ELSE IF gp.threw THEN Failed(v, gp.message)
        ELSE LET c == getContract(t.resolver, gp.provider)
                 w == [v EXCEPT !.provider = gp.provider]
             IN  IF c.threw THEN Failed(w, c.message)
                 ELSE [w EXCEPT
                         !.pc = t.method,
                         !.locals = [resolver |-> c.contract],
                         !.calls = Issue(@, c.contract, t.method,
                                         ReadCallArgs(t, v.args))]

\* the call has settled
SingleCallFinish(v) ==
    LET call == v.calls[1]
    IN  IF call.status = "failed" THEN Failed(v, call.error)
        ELSE Returned(v, SingleCallJson(v.args, call.value[1]))

SingleCallRead(i) ==
    /\ CanStart(i)
    /\ \E t \in SingleCallReads, chain \in BuilderChains :
          LET args == [n \in {"chain", "rpc_url"} \cup Range(t.params) |->
                          IF n = "chain" THEN chain
                          ELSE IF n = "rpc_url" THEN Undefined
                          ELSE ReadArgument(n)]
              gp   == getProvider(chain, Undefined, providerCache, constructed)
              v    == [IdleInv EXCEPT !.tool = t.tool, !.args = args]
          IN  /\ providerCache' = gp.cache
              /\ constructed' = gp.made
              /\ inv' = [inv EXCEPT ![i] = SingleCallStart(v, gp, t)]
    /\ UNCHANGED <<numVars, server>>

SingleCallReturns(i) ==
    /\ \E t \in SingleCallReads : inv[i].tool = t.tool /\ inv[i].pc = t.method
    /\ \E answer \in ReadAnswers :
          inv' = [inv EXCEPT ![i] = SingleCallFinish(Resolved(inv[i], 1, answer))]
    /\ UNCHANGED <<providerCache, constructed, numVars, server>>

SingleCallFails(i) ==
    /\ \E t \in SingleCallReads : inv[i].tool = t.tool /\ inv[i].pc = t.method
    /\ \E error \in CallErrors :
          inv' = [inv EXCEPT ![i] = SingleCallFinish(Rejected(inv[i], 1, error))]
    /\ UNCHANGED <<providerCache, constructed, numVars, server>>

(***************************************************************************)
(* dex-read: fluid_get_dex_pools                                           *)
(***************************************************************************)
PoolLists == {<<>>, <<"0x9Fb7b4477576Fe5B32be4C1843aFB1e55F251B33">>}

GetDexPoolsJson(args, total, pools) ==
    [chain |-> args.chain, totalPools |-> total, pools |-> pools]

\* up to await Promise.all([getAllPoolAddresses(), getTotalPools()])
GetDexPoolsStart(v, gp) ==
    LET cfg == getChainConfig(v.args.chain)
    IN  IF cfg.threw THEN Failed(v, cfg.message)
        ELSE IF gp.threw THEN Failed(v, gp.message)
        ELSE LET c == getContract(CONTRACTS.dexResolver, gp.provider)
                 w == [v EXCEPT !.provider = gp.provider]
             IN  IF c.threw THEN Failed(w, c.message)
                 ELSE [w EXCEPT
                         !.pc = "Promise.all",
                         !.locals = [resolver |-> c.contract],
                         !.calls = Issue(Issue(@, c.contract, "getAllPoolAddresses", <<>>),
                                         c.contract, "getTotalPools", <<>>)]

\* one of the two calls has settled
GetDexPoolsSettled(v) ==
    IF \E k \in 1..2 : v.calls[k].status = "failed"
    THEN Failed(v, v.calls[CHOOSE k \in 1..2 : v.calls[k].status = "failed"].error)
    ELSE IF \E k \in 1..2 : v.calls[k].status = "pending" THEN v
    ELSE Returned(v, GetDexPoolsJson(v.args, v.calls[2].value[1], v.calls[1].value[1]))

GetDexPools(i) ==
    /\ CanStart(i)
    /\ \E chain \in BuilderChains :
          LET args == [chain |-> chain, rpc_url |-> Undefined]
              gp   == getProvider(chain, Undefined, providerCache, constructed)
              v    == [IdleInv EXCEPT !.tool = "fluid_get_dex_pools", !.args = args]
          IN  /\ providerCache' = gp.cache
              /\ constructed' = gp.made
              /\ inv' = [inv EXCEPT ![i] = GetDexPoolsStart(v, gp)]
    /\ UNCHANGED <<numVars, server>>

GetDexPoolsCallReturns(i) ==
    /\ inv[i].tool = "fluid_get_dex_pools"
    /\ inv[i].pc = "Promise.all"
    /\ \E k \in 1..2 :
          /\ inv[i].calls[k].status = "pending"
          /\ \E value \in IF k = 1 THEN PoolLists ELSE TotalValues :
                inv' = [inv EXCEPT ![i] = GetDexPoolsSettled(Resolved(inv[i], k, value))]
    /\ UNCHANGED <<providerCache, constructed, numVars, server>>

GetDexPoolsCallFails(i) ==
    /\ inv[i].tool = "fluid_get_dex_pools"
    /\ inv[i].pc = "Promise.all"
    /\ \E k \in 1..2, error \in CallErrors :
          /\ inv[i].calls[k].status = "pending"
          /\ inv' = [inv EXCEPT ![i] = GetDexPoolsSettled(Rejected(inv[i], k, error))]
    /\ UNCHANGED <<providerCache, constructed, numVars, server>>

(***************************************************************************)
(* vault-read: fluid_get_vault_data, fluid_get_vault_position and          *)
(* fluid_get_vault_by_nft: one resolver call, then the token lookups       *)
(***************************************************************************)
ZeroAddress == "0x0000000000000000000000000000000000000000"

VaultTokenReads ==
    {[tool |-> "fluid_get_vault_data", method |-> "getVaultEntireData",
      param |-> "vault_address"],
     [tool |-> "fluid_get_vault_position", method |-> "positionByNftId",
      param |-> "nft_id"],
     [tool |-> "fluid_get_vault_by_nft", method |-> "positionByNftId",
      param |-> "nft_id"]}

\* the answers of the resolver, by the token addresses getSupplyTokenAddress
\* and getBorrowTokenAddress find in them
VaultAnswers ==
    {[supply |-> "0xdAC17F958D2ee523a2206206994597C13D831ec7", borrow |-> ZeroAddress],
     [supply |-> "0xdAC17F958D2ee523a2206206994597C13D831ec7",
      borrow |-> "0xdAC17F958D2ee523a2206206994597C13D831ec7"]}

SymbolValues == {"USDT"}

DecimalsValues == {6}

\* getTokenInfo up to its await: nothing for the zero address, else symbol()
\* and decimals() go out; a throw of getContract is caught
IssueTokenInfo(calls, address, provider) ==
    IF address = ZeroAddress THEN calls
    ELSE LET token == getContract(address, provider)
         IN  IF token.threw THEN calls
             ELSE Issue(Issue(calls, token.contract, "symbol", <<>>),
                        token.contract, "decimals", <<>>)

\* what getTokenInfo returns from its two calls, each with its own catch
TokenInfo(address, calls, k) ==
    IF address = ZeroAddress THEN [symbol |-> "UNKNOWN", decimals |-> 18]
    ELSE [symbol   |-> IF calls[k].status = "ok" THEN calls[k].value[1] ELSE "UNKNOWN",
          decimals |-> IF calls[k + 1].status = "ok" THEN calls[k + 1].value[1] ELSE 18]

\* the response: the chain as given, the answer and the token information
VaultTokensJson(args, answer, supplyInfo, borrowInfo) ==
    [chain |-> args.chain, answer |-> answer,
     supplySymbol |-> supplyInfo.symbol, supplyDecimals |-> supplyInfo.decimals,
     borrowSymbol |-> borrowInfo.symbol, borrowDecimals |-> borrowInfo.decimals]

\* up to the await of the resolver call
VaultTokensStart(v, gp, t) ==
    IF gp.threw THEN Failed(v, gp.message)
    ELSE LET c == getContract(CONTRACTS.vaultResolver, gp.provider)
             w == [v EXCEPT !.provider = gp.provider]
         IN  IF c.threw THEN Failed(w, c.message)
             ELSE [w EXCEPT
                     !.pc = t.method,
                     !.locals = [resolver |-> c.contract],
                     !.calls = Issue(@, c.contract, t.method, <<v.args[t.param]>>)]

\* every call of the token lookups has settled
VaultTokensFinish(v) ==
    LET answer == v.calls[1].value[1]
        supplyAt == 2
        borrowAt == IF answer.supply = ZeroAddress THEN 2 ELSE 4
    IN  Returned(v, VaultTokensJson(v.args, answer,
                                    TokenInfo(answer.supply, v.calls, supplyAt),
                                    TokenInfo(answer.borrow, v.calls, borrowAt)))

\* the resolver call has settled: on success the token lookups go out
VaultTokensAfterFirst(v) ==
    LET call == v.calls[1]
    IN  IF call.status = "failed" THEN Failed(v, call.error)
        ELSE LET answer == call.value[1]
                 w == [v EXCEPT
                         !.pc = "getTokenInfo",
                         !.calls = IssueTokenInfo(
                                      IssueTokenInfo(@, answer.supply, v.provider),
                                      answer.borrow, v.provider)]
             IN  IF Len(w.calls) = 1 THEN VaultTokensFinish(w) ELSE w

\* one call of the token lookups has settled
VaultTokensAfterLookup(v) ==
    IF \E k \in 2..Len(v.calls) : v.calls[k].status = "pending" THEN v
    ELSE VaultTokensFinish(v)

GetVaultTokens(i) ==
    /\ CanStart(i)
    /\ \E t \in VaultTokenReads, chain \in BuilderChains :
          LET args == [n \in {"chain", "rpc_url", t.param} |->
                          IF n = "chain" THEN chain
                          ELSE IF n = "rpc_url" THEN Undefined
                          ELSE IF n = "nft_id" THEN 7
                          ELSE GoodAddress]
              gp   == getProvider(chain, Undefined, providerCache, constructed)
              v    == [IdleInv EXCEPT !.tool = t.tool, !.args = args]
          IN  /\ providerCache' = gp.cache
              /\ constructed' = gp.made
              /\ inv' = [inv EXCEPT ![i] = VaultTokensStart(v, gp, t)]
    /\ UNCHANGED <<numVars, server>>

VaultTokensFirstReturns(i) ==
    /\ \E t \in VaultTokenReads : inv[i].tool = t.tool /\ inv[i].pc = t.method
    /\ \E answer \in VaultAnswers :
          inv' = [inv EXCEPT ![i] = VaultTokensAfterFirst(Resolved(inv[i], 1, answer))]
    /\ UNCHANGED <<providerCache, constructed, numVars, server>>

VaultTokensFirstFails(i) ==
    /\ \E t \in VaultTokenReads : inv[i].tool = t.tool /\ inv[i].pc = t.method
    /\ \E error \in CallErrors :
          inv' = [inv EXCEPT ![i] = VaultTokensAfterFirst(Rejected(inv[i], 1, error))]
    /\ UNCHANGED <<providerCache, constructed, numVars, server>>

TokenLookupReturns(i) ==
    /\ \E t \in VaultTokenReads : inv[i].tool = t.tool
    /\ inv[i].pc = "getTokenInfo"
    /\ \E k \in 2..Len(inv[i].calls) :
          /\ inv[i].calls[k].status = "pending"
          /\ \E value \in IF inv[i].calls[k].method = "symbol" THEN SymbolValues
                          ELSE DecimalsValues :
                inv' = [inv EXCEPT ![i] = VaultTokensAfterLookup(Resolved(inv[i], k, value))]
    /\ UNCHANGED <<providerCache, constructed, numVars, server>>

TokenLookupFails(i) ==
    /\ \E t \in VaultTokenReads : inv[i].tool = t.tool
    /\ inv[i].pc = "getTokenInfo"
    /\ \E k \in 2..Len(inv[i].calls), error \in CallErrors :
          /\ inv[i].calls[k].status = "pending"
          /\ inv' = [inv EXCEPT ![i] = VaultTokensAfterLookup(Rejected(inv[i], k, error))]
    /\ UNCHANGED <<providerCache, constructed, numVars, server>>

(***************************************************************************)
(* index.ts: the fluid://chains resource                                   *)
(***************************************************************************)
AllProtocols == <<"liquidity", "lending", "vault", "dex">>

\* the object the resource callback serialises
ChainsResource ==
    [description |-> "Chains where Fluid protocol is deployed",
     chains |-> SUPPORTED_CHAINS,
     details |->
        [name \in {"ethereum", "arbitrum", "base", "polygon"} |->
            [chainId |-> CASE name = "ethereum" -> 1
                           [] name = "arbitrum" -> 42161
                           [] name = "base" -> 8453
                           [] name = "polygon" -> 137,
             protocols |-> AllProtocols]]]

\* a client reads fluid://chains: the callback awaits nothing
ReadChainsResource(i) ==
    /\ CanStart(i)
    /\ "fluid://chains" \in Range(server.resources)
    /\ inv' = [inv EXCEPT ![i] =
                  Returned([IdleInv EXCEPT !.tool = "fluid://chains"], ChainsResource)]
    /\ UNCHANGED <<providerCache, constructed, numVars, server>>

(***************************************************************************)
(* SpecNum: the pure helpers applied to bounded inputs                     *)
(***************************************************************************)
BpInputs == (0..MaxBp) \cup {8800, 31605, 407}

\* estimates 0..MaxEstimate are answered, and two larger ones
MaxEstimate == 60

EstimateInputs == (0..MaxEstimate) \cup {997, 100000}

\* slippage_bps: omitted, or a number of basis points
SlippageArgs == {Undefined} \cup {Some(b) : b \in {0, 1, 50, 100, 2500, 9999, 10000}}

\* chain arguments: configured names in several letter cases, unknown names,
\* and names of members every JavaScript object inherits
ChainTexts ==
    {"ethereum", "Ethereum", "ARBITRUM", "base", "Polygon", "plasma",
     "solana", "", "toString", "constructor", "Constructor", "__proto__"}

\* no helper is being applied
NumIdle == fn = "none" /\ argv = <<>> /\ ret = Undefined

InitTools ==
    /\ providerCache = <<>>
    /\ constructed = <<>>
    /\ inv = [i \in Slots |-> IdleInv]
    /\ server = StartedServer

Init == NumIdle /\ InitTools

\* a helper and its arguments are drawn; the result is still to be computed
InitNum ==
    /\ InitTools
    /\ ret = Undefined
    /\ \/ fn = "decodeInt256" /\ \E raw \in 0..(TWO_POW_256 - 1) : argv = <<raw>>
       \/ /\ fn = "storeAndDecode"
          /\ \E v \in (-(TWO_POW_256 \div 2))..((TWO_POW_256 \div 2) - 1) : argv = <<v>>
       \/ /\ fn = "sharesToTokenAmount"
          /\ \E shares \in (-MaxShares)..MaxShares, exchangePrice \in (-MaxPrice)..MaxPrice :
                argv = <<shares, exchangePrice>>
       \/ fn = "formatVaultPercent" /\ \E basisPoints \in BpInputs : argv = <<basisPoints>>
       \/ fn = "formatRateToAPY" /\ \E rateBps \in BpInputs : argv = <<rateBps>>
       \/ fn = "getChainConfig" /\ \E chain \in ChainTexts : argv = <<chain>>
       \/ /\ fn \in {"swapExactInput", "swapExactOutput"}
          /\ \E dir \in BOOLEAN, slippage \in SlippageArgs, reserves \in ReservesValues,
                estimate \in EstimateInputs :
                argv = <<dir, slippage, reserves, estimate>>

DecodeInt256Step ==
    /\ fn = "decodeInt256" /\ ret = Undefined
    /\ ret' = Some(decodeInt256(argv[1]))
    /\ UNCHANGED <<fn, argv, toolVars>>

\* a signed value stored on chain as its residue mod 2^256, then decoded
StoreAndDecodeStep ==
    /\ fn = "storeAndDecode" /\ ret = Undefined
    /\ ret' = Some(decodeInt256(argv[1] % TWO_POW_256))
    /\ UNCHANGED <<fn, argv, toolVars>>

SharesToTokenAmountStep ==
    /\ fn = "sharesToTokenAmount" /\ ret = Undefined
    /\ ret' = Some(sharesToTokenAmount(argv[1], argv[2]))
    /\ UNCHANGED <<fn, argv, toolVars>>

FormatVaultPercentStep ==
    /\ fn = "formatVaultPercent" /\ ret = Undefined
    /\ ret' = Some(formatVaultPercent(argv[1]))
    /\ UNCHANGED <<fn, argv, toolVars>>

FormatRateToAPYStep ==
    /\ fn = "formatRateToAPY" /\ ret = Undefined
    /\ ret' = Some(formatRateToAPY(argv[1]))
    /\ UNCHANGED <<fn, argv, toolVars>>

\* fluid_build_swap_exact_input run from its call to its return, the two
\* contract calls answering with argv's reserves and estimate
SwapExactInputStep ==
    /\ fn = "swapExactInput" /\ ret = Undefined
    /\ LET args == [chain |-> "ethereum", pool_address |-> GoodAddress,
                    swap_0_to_1 |-> argv[1], amount_in |-> "1000",
                    slippage_bps |-> argv[2], receiver |-> Receiver,
                    rpc_url |-> Undefined]
           v0 == [IdleInv EXCEPT !.tool = "fluid_build_swap_exact_input", !.args = args]
           v1 == SwapInStart(v0, getProvider(args.chain, args.rpc_url, <<>>, <<>>))
           v2 == SwapInAfterReserves(Resolved(v1, 1, argv[3]))
           v3 == SwapInAfterEstimate(Resolved(v2, 2, argv[4]))
       IN  ret' = Some(v3.result.json)
    /\ UNCHANGED <<fn, argv, toolVars>>

\* fluid_build_swap_exact_output, likewise
SwapExactOutputStep ==
    /\ fn = "swapExactOutput" /\ ret = Undefined
    /\ LET args == [chain |-> "ethereum", pool_address |-> GoodAddress,
                    swap_0_to_1 |-> argv[1], amount_out |-> "1000",
                    slippage_bps |-> argv[2], receiver |-> Receiver,
                    rpc_url |-> Undefined]
           v0 == [IdleInv EXCEPT !.tool = "fluid_build_swap_exact_output", !.args = args]
           v1 == SwapOutStart(v0, getProvider(args.chain, args.rpc_url, <<>>, <<>>))
           v2 == SwapOutAfterReserves(Resolved(v1, 1, argv[3]))
           v3 == SwapOutAfterEstimate(Resolved(v2, 2, argv[4]))
       IN  ret' = Some(v3.result.json)
    /\ UNCHANGED <<fn, argv, toolVars>>

GetChainConfigStep ==
    /\ fn = "getChainConfig" /\ ret = Undefined
    /\ ret' = Some(getChainConfig(argv[1]))
    /\ UNCHANGED <<fn, argv, toolVars>>

NextNum ==
    \/ DecodeInt256Step
    \/ StoreAndDecodeStep
    \/ SharesToTokenAmountStep
    \/ FormatVaultPercentStep
    \/ FormatRateToAPYStep
    \/ GetChainConfigStep
    \/ SwapExactInputStep
    \/ SwapExactOutputStep

SpecNum == InitNum /\ [][NextNum]_vars

(***************************************************************************)
(* Spec: tool invocations, concurrently in flight                          *)
(***************************************************************************)
Next ==
    \E i \in Slots :
        \/ LendingDeposit(i)
        \/ LendingDepositPreviewReturns(i)
        \/ LendingDepositPreviewFails(i)
        \/ LendingDepositNative(i)
        \/ GetVaultType(i)
        \/ GetVaultTypeReturns(i)
        \/ GetVaultTypeFails(i)
        \/ GetAllVaults(i)
        \/ GetAllVaultsAddressesReturns(i)
        \/ GetTotalVaultsReturns(i)
        \/ GetAllVaultsFirstFails(i)
        \/ VaultTypeOfReturns(i)
        \/ VaultTypeOfFails(i)
        \/ SwapExactInput(i)
        \/ SwapReservesReturns(i)
        \/ SwapReservesFails(i)
        \/ SwapEstimateReturns(i)
        \/ SwapEstimateFails(i)

Spec == Init /\ [][Next]_vars

(***************************************************************************)
(* SpecTools: the module loads, the server connects, and the handlers of   *)
(* every tool group and the chains resource are invoked                    *)
(***************************************************************************)
\* invocations made of the loaded server
MaxCalls == 1

ToolSlots == 1..MaxCalls

InitStart ==
    /\ NumIdle
    /\ providerCache = <<>>
    /\ constructed = <<>>
    /\ inv = [i \in ToolSlots |-> IdleInv]
    /\ server = NewServer

NextTools ==
    \/ RegisterToolGroup
    \/ RegisterResources
    \/ RegisterPrompts
    \/ Connect
    \/ \E i \in ToolSlots :
        \/ ReadChainsResource(i)
        \/ LendingDeposit(i)
        \/ LendingDepositPreviewReturns(i)
        \/ LendingDepositPreviewFails(i)
        \/ LendingDepositNative(i)
        \/ GetVaultType(i)
        \/ GetVaultTypeReturns(i)
        \/ GetVaultTypeFails(i)
        \/ GetAllVaults(i)
        \/ GetAllVaultsAddressesReturns(i)
        \/ GetTotalVaultsReturns(i)
        \/ GetAllVaultsFirstFails(i)
        \/ VaultTypeOfReturns(i)
        \/ VaultTypeOfFails(i)
        \/ SwapExactInput(i)
        \/ SwapReservesReturns(i)
        \/ SwapReservesFails(i)
        \/ SwapEstimateReturns(i)
        \/ SwapEstimateFails(i)
        \/ SwapExactOutput(i)
        \/ SwapOutReservesReturns(i)
        \/ SwapOutReservesFails(i)
        \/ SwapOutEstimateReturns(i)
        \/ SwapOutEstimateFails(i)
        \/ LendingMint(i)
        \/ LendingMintPreviewReturns(i)
        \/ LendingMintPreviewFails(i)
        \/ LendingWithdraw(i)
        \/ LendingWithdrawPreviewReturns(i)
        \/ LendingWithdrawPreviewFails(i)
        \/ LendingRedeem(i)
        \/ LendingRedeemPreviewReturns(i)
        \/ LendingRedeemPreviewFails(i)
        \/ LendingWithdrawNative(i)
        \/ TokenApprove(i)
        \/ VaultT1Operate(i)
        \/ VaultT2Operate(i)
        \/ VaultT3Operate(i)
        \/ VaultT4Operate(i)
        \/ SingleCallRead(i)
        \/ SingleCallReturns(i)
        \/ SingleCallFails(i)
        \/ GetDexPools(i)
        \/ GetDexPoolsCallReturns(i)
        \/ GetDexPoolsCallFails(i)
        \/ GetVaultTokens(i)
        \/ VaultTokensFirstReturns(i)
        \/ VaultTokensFirstFails(i)
        \/ TokenLookupReturns(i)
        \/ TokenLookupFails(i)
        \/ EstimateSwapIn(i)
        \/ EstimateSwapOut(i)
        \/ EstimateInReservesReturns(i)
        \/ EstimateInReservesFails(i)
        \/ EstimateInEstimateReturns(i)
        \/ EstimateInEstimateFails(i)
        \/ EstimateOutReservesReturns(i)
        \/ EstimateOutReservesFails(i)
        \/ EstimateOutEstimateReturns(i)
        \/ EstimateOutEstimateFails(i)

SpecTools == InitStart /\ [][NextTools]_vars

(***************************************************************************)
(* Properties of the numeric helpers (SpecNum)                             *)
(***************************************************************************)
Applied(name) == fn = name /\ ret # Undefined

\* C1: decodeInt256 is total on [0, 2^w) and reads its argument as a w-bit
\* two's-complement number: raw itself up to 2^(w-1) - 1, raw - 2^w above,
\* so the result lies in [-2^(w-1), 2^(w-1) - 1].
C1_DecodeIsTwosComplement ==
    /\ (fn = "decodeInt256" /\ ret = Undefined) => ENABLED DecodeInt256Step
    /\ Applied("decodeInt256") =>
          LET raw == argv[1]
              out == ret[1]
          IN  /\ out = IF raw <= Pow2(IntWidth - 1) - 1 THEN raw ELSE raw - Pow2(IntWidth)
              /\ -Pow2(IntWidth - 1) <= out
              /\ out <= Pow2(IntWidth - 1) - 1

\* the first raw value above the signed range decodes to the least signed value
C1_Witness ==
    /\ Applied("decodeInt256")
    /\ argv[1] = Pow2(IntWidth - 1)
    /\ ret[1] = -Pow2(IntWidth - 1)

\* C2: two's-complement round trip: a signed v stored as v mod 2^w decodes
\* to v, and a decoded raw value taken mod 2^w is raw again.
C2_RoundTrip ==
    /\ Applied("storeAndDecode") => ret[1] = argv[1]
    /\ Applied("decodeInt256") => ret[1] % Pow2(IntWidth) = argv[1]

\* the most negative value, stored as raw 2^(w-1), comes back
C2_Witness ==
    /\ Applied("storeAndDecode")
    /\ argv[1] = -Pow2(IntWidth - 1)
    /\ argv[1] % Pow2(IntWidth) = Pow2(IntWidth - 1)
    /\ ret[1] = argv[1]

\* C3: for exchangePrice >= 0, sharesToTokenAmount is shares * exchangePrice
\* divided by the scale with the quotient truncated toward zero: the
\* remainder is smaller than the scale and never of the sign opposite to
\* the product.
C3_TruncatesTowardZero ==
    (Applied("sharesToTokenAmount") /\ argv[2] >= 0) =>
        LET product   == argv[1] * argv[2]
            scale     == Pow10(PrecisionDigits)
            remainder == product - ret[1] * scale
        IN  /\ Abs(remainder) < scale
            /\ remainder # 0 => (remainder > 0) = (product > 0)

\* negative shares whose product is no multiple of the scale
C3_Witness ==
    /\ Applied("sharesToTokenAmount")
    /\ argv[1] < 0 /\ argv[2] > 0
    /\ (argv[1] * argv[2]) % Pow10(PrecisionDigits) # 0
    /\ ret[1] < 0

\* C4: sharesToTokenAmount returns 0 when shares or exchangePrice is 0, never
\* a result of the sign opposite to shares when exchangePrice >= 0, and
\* sharesToTokenAmount(-s, p) = -sharesToTokenAmount(s, p).
C4_SignPreserved ==
    Applied("sharesToTokenAmount") =>
        LET shares == argv[1]
            price  == argv[2]
            out    == ret[1]
        IN  /\ (shares = 0 \/ price = 0) => out = 0
            /\ price >= 0 => /\ shares > 0 => out >= 0
                             /\ shares < 0 => out <= 0
            /\ sharesToTokenAmount(-shares, price) = -out

\* negative shares give a negative amount, the mirror of the positive one
C4_Witness ==
    /\ Applied("sharesToTokenAmount")
    /\ argv[1] < 0 /\ argv[2] > 0 /\ ret[1] < 0
    /\ sharesToTokenAmount(-argv[1], argv[2]) = -ret[1]
    /\ sharesToTokenAmount(-argv[1], argv[2]) > 0

AllDigits(s) == \A i \in 1..Len(s) : IsDigit(CharAt(s, i))

\* a text of digits with no leading zero, "0" itself apart
IsPlainInteger(s) == Len(s) >= 1 /\ AllDigits(s) /\ (Len(s) > 1 => CharAt(s, 1) # "0")

\* text is the decimal notation of bp/100 with at most two fraction digits,
\* no trailing fraction zero and no trailing point
DenotesHundredths(text, bp) ==
    LET dot == DotIndex(text)
    IN  IF dot = 0
        THEN IsPlainInteger(text) /\ 100 * ParseDigits(text) = bp
        ELSE LET whole == SubSeq(text, 1, dot - 1)
                 frac  == SubSeq(text, dot + 1, Len(text))
             IN  /\ IsPlainInteger(whole)
                 /\ Len(frac) \in {1, 2}
                 /\ AllDigits(frac)
                 /\ CharAt(frac, Len(frac)) # "0"
                 /\ 100 * ParseDigits(whole)
                      + (IF Len(frac) = 1 THEN 10 ELSE 1) * ParseDigits(frac) = bp

ConfiguredChains == {"ethereum", "arbitrum", "base", "polygon", "plasma"}

\* C15: getChainConfig(chain) returns the configuration filed under chain
\* lower-cased when that is a configured chain, throws "Unsupported chain",
\* with the list of the supported chains, for every other text, and never
\* returns anything but one of the configured configurations.
C15_ConfiguredOrThrows ==
    Applied("getChainConfig") =>
        LET chain == argv[1]
            out   == ret[1]
            key   == LowerCaseOf(chain)
        IN  /\ key \in ConfiguredChains =>
                  ~out.threw /\ out.config = CHAINS[key]
            /\ key \notin ConfiguredChains =>
                  /\ out.threw
                  /\ out.message = "Unsupported chain: " \o chain
                        \o ". Supported: ethereum, arbitrum, base, polygon, plasma"
            /\ ~out.threw => \E k \in ConfiguredChains : out.config = CHAINS[k]

\* C16: in both swap builders the tolerance is 50 basis points only when
\* slippage_bps is omitted; a supplied value, 0 included, is the tolerance
\* applied to the estimate and the slippageBps reported.
C16_SuppliedSlippageApplied ==
    /\ Applied("swapExactInput") =>
          LET wanted == IF argv[2] = Undefined THEN 50 ELSE argv[2][1]
          IN  /\ ret[1].slippageBps = wanted
              /\ ret[1].amountOutMin = ToString((argv[4] * (10000 - wanted)) \div 10000)
    /\ Applied("swapExactOutput") =>
          LET wanted == IF argv[2] = Undefined THEN 50 ELSE argv[2][1]
          IN  /\ ret[1].slippageBps = wanted
              /\ ret[1].amountInMax = ToString((argv[4] * (10000 + wanted)) \div 10000)

\* C17: fluid_build_swap_exact_input: with slippageBps the tolerance the
\* handler applies (0..10000) and estimatedOut >= 0 the estimate, amountOutMin
\* is the floor of estimatedOut * (10000 - slippageBps) / 10000, it lies in
\* 0..estimatedOut, and the amountOutMin of the JSON is the one encoded in
\* the swapIn calldata.
C17_SlippageProtection ==
    (Applied("swapExactInput") /\ ret[1].slippageBps \in 0..10000) =>
        LET estimatedOut == argv[4]
            slippageBps  == ret[1].slippageBps
            encoded      == ret[1].data.values[3]
        IN  /\ ret[1].data.function = "swapIn"
            /\ 10000 * encoded <= estimatedOut * (10000 - slippageBps)
            /\ estimatedOut * (10000 - slippageBps) < 10000 * (encoded + 1)
            /\ 0 <= encoded /\ encoded <= estimatedOut
            /\ ret[1].amountOutMin = ToString(encoded)
            /\ ret[1].estimatedAmountOut = ToString(estimatedOut)

\* an estimate of 997 under a tolerance of 1%: 987.03 is cut to 987
C17_Witness ==
    /\ Applied("swapExactInput")
    /\ argv[2] = Some(100) /\ argv[4] = 997
    /\ ret[1].amountOutMin = "987"
    /\ ret[1].data.values[3] = 987

\* the native-token placeholder, whatever the case of its letters
IsNativePlaceholder(address) ==
    LowerCaseOf(address) = "0xeeeeeeeeeeeeeeeeeeeeeeeeeeeeeeeeeeeeeeee"

\* the token a swap takes in, by its direction
InputSideToken(swap_0_to_1, reserves) ==
    IF swap_0_to_1 THEN reserves.token0 ELSE reserves.token1

\* C21: fluid_build_swap_exact_input: value is amount_in exactly when the
\* input-side token (token0 for swap_0_to_1, token1 otherwise) is the native
\* placeholder in any letter case, and "0" otherwise; the output-side token
\* does not matter.
C21_SwapInValue ==
    (fn = "swapExactInput" /\ ret # Undefined) =>
        ret[1].value = IF IsNativePlaceholder(InputSideToken(argv[1], argv[3]))
                       THEN ret[1].amountIn ELSE "0"

\* a swap token1 -> token0 whose token1 is the placeholder in lower case
C21_Witness ==
    /\ fn = "swapExactInput" /\ ret # Undefined
    /\ ~argv[1] /\ argv[3].token1 # NativeToken /\ ret[1].value = "1000"

\* C22: fluid_build_swap_exact_output: amountInMax is the floor of
\* estimatedIn * (10000 + slippageBps) / 10000 and is at least estimatedIn;
\* that one number is the third swapOut argument, the amountInMax of the JSON
\* and, when the input-side token is native, the value ("0" otherwise).
C22_SwapOutMaximum ==
    Applied("swapExactOutput") =>
        LET estimatedIn == argv[4]
            slippageBps == ret[1].slippageBps
            encoded     == ret[1].data.values[3]
        IN  /\ ret[1].data.function = "swapOut"
            /\ slippageBps >= 0
            /\ 10000 * encoded <= estimatedIn * (10000 + slippageBps)
            /\ estimatedIn * (10000 + slippageBps) < 10000 * (encoded + 1)
            /\ encoded >= estimatedIn
            /\ ret[1].amountInMax = ToString(encoded)
            /\ ret[1].estimatedAmountIn = ToString(estimatedIn)
            /\ ret[1].value = IF IsNativePlaceholder(InputSideToken(argv[1], argv[3]))
                              THEN ToString(encoded) ELSE "0"

\* a native input whose maximum, rounded down, lies above the estimate
C22_Witness ==
    /\ Applied("swapExactOutput")
    /\ argv[4] = 997 /\ argv[2] = Some(100)
    /\ ret[1].data.values[3] = 1006
    /\ ret[1].value = "1006"

(***************************************************************************)
(* Properties of the provider cache and the tool invocations (Spec)        *)
(***************************************************************************)
\* the invocation's getProvider call returned a provider
GotProvider(i) == inv[i].provider.id # 0

\* the endpoint an invocation asks for: its rpc_url, the chain's default
\* when it gives none
EffectiveUrl(args) ==
    IF args.rpc_url # Undefined THEN args.rpc_url
    ELSE getChainConfig(args.chain).config.rpcDefault

\* the key getProvider files an invocation's provider under
KeyOf(args) ==
    CacheKey(args.chain,
             OrString(args.rpc_url, getChainConfig(args.chain).config.rpcDefault))

InFlight(i) == inv[i].pc \notin {"idle", "returned", "failed"}

\* C6: connection reuse: two getProvider calls with the same chain string and
\* the same effective endpoint URL return the same provider instance; a
\* provider is constructed at most once per cache key; every provider ever
\* constructed is still the cache's entry for its key (never replaced, never
\* evicted).
C6_ConnectionReuse ==
    /\ \A i, j \in Slots :
          (/\ GotProvider(i) /\ GotProvider(j)
           /\ inv[i].args.chain = inv[j].args.chain
           /\ EffectiveUrl(inv[i].args) = EffectiveUrl(inv[j].args))
          => inv[i].provider = inv[j].provider
    /\ \A a, b \in 1..Len(constructed) :
          constructed[a].key = constructed[b].key => a = b
    /\ \A a \in 1..Len(constructed) :
          /\ constructed[a].key \in DOMAIN providerCache
          /\ providerCache[constructed[a].key] = constructed[a].provider

\* one call names the default endpoint, the other leaves it out: one provider
C6_Witness ==
    \E i, j \in Slots :
        /\ i < j
        /\ GotProvider(i) /\ GotProvider(j)
        /\ inv[i].args.chain = inv[j].args.chain
        /\ inv[i].args.rpc_url # inv[j].args.rpc_url
        /\ inv[i].provider = inv[j].provider
        /\ Len(constructed) = 1

\* C7: the cache never holds two distinct providers for the same chain, as
\* getChainConfig resolves it (letter case ignored), and the same endpoint
\* URL.
C7_OneProviderPerChainAndUrl ==
    \A k1, k2 \in DOMAIN providerCache :
        (/\ providerCache[k1].chainId = providerCache[k2].chainId
         /\ providerCache[k1].url = providerCache[k2].url)
        => providerCache[k1] = providerCache[k2]

\* C8: under every interleaving of invocations in flight, at most one
\* provider is constructed per cache key and all invocations of one key hold
\* the same provider instance.
C8_LookupOrInsertIsAtomic ==
    /\ \A key \in DOMAIN providerCache :
          Cardinality({a \in 1..Len(constructed) : constructed[a].key = key}) = 1
    /\ \A i, j \in Slots :
          (GotProvider(i) /\ GotProvider(j) /\ KeyOf(inv[i].args) = KeyOf(inv[j].args))
          => inv[i].provider.id = inv[j].provider.id

\* two invocations awaiting their calls at the same time on one provider
C8_Witness ==
    \E i, j \in Slots :
        /\ i # j
        /\ InFlight(i) /\ InFlight(j)
        /\ KeyOf(inv[i].args) = KeyOf(inv[j].args)
        /\ inv[i].provider.id = inv[j].provider.id
        /\ inv[i].provider.id # 0

AnyCallFailed(i) == \E k \in 1..Len(inv[i].calls) : inv[i].calls[k].status = "failed"

\* C9 as stated: an invocation one of whose contract calls failed never
\* returns a successful JSON result.
C9_FailuresNeverRecovered ==
    \A i \in Slots : AnyCallFailed(i) => inv[i].pc # "returned"

\* the calls a handler awaits inside try/catch
CaughtCall(tool, method) ==
    \/ tool = "fluid_build_lending_deposit" /\ method = "previewDeposit"
    \/ tool = "fluid_get_all_vaults" /\ method = "getVaultType"

\* C9 as amended: a failed contract call that the handler does not await
\* inside try/catch ends the invocation as a failure carrying the call's
\* message, and an invocation that returned had no such call fail.
C9_UncaughtFailuresPropagate ==
    \A i \in Slots : \A k \in 1..Len(inv[i].calls) :
        (inv[i].calls[k].status = "failed"
            /\ ~CaughtCall(inv[i].tool, inv[i].calls[k].method))
        => /\ inv[i].pc = "failed"
           /\ ~inv[i].result.ok
           /\ inv[i].result.message = inv[i].calls[k].error
           /\ inv[i].result.json = NoJson

\* the estimate fails after the reserves were fetched: the swap build fails
C9_Witness ==
    \E i \in Slots :
        /\ inv[i].tool = "fluid_build_swap_exact_input"
        /\ Len(inv[i].calls) = 2
        /\ inv[i].calls[1].status = "ok"
        /\ inv[i].calls[2].status = "failed"
        /\ inv[i].pc = "failed"
        /\ inv[i].result.message = inv[i].calls[2].error

\* what the endpoint answered to an invocation, call by call
Responses(i) ==
    [k \in 1..Len(inv[i].calls) |->
        <<inv[i].calls[k].method, inv[i].calls[k].args, inv[i].calls[k].status,
          inv[i].calls[k].value, inv[i].calls[k].error>>]

Completed(i) == inv[i].pc \in {"returned", "failed"}

ReadmeTools ==
    {"fluid_get_listed_tokens", "fluid_get_token_rates", "fluid_get_all_tokens_data",
     "fluid_get_user_supply", "fluid_get_user_borrow", "fluid_get_revenue",
     "fluid_get_all_ftokens", "fluid_get_ftoken_details",
     "fluid_get_all_ftokens_details", "fluid_get_user_lending_position",
     "fluid_get_ftoken_rewards",
     "fluid_get_all_vaults", "fluid_get_vault_data", "fluid_get_all_vaults_data",
     "fluid_get_vault_position", "fluid_get_user_vault_positions",
     "fluid_get_liquidations",
     "fluid_get_dex_pools", "fluid_get_pool_reserves", "fluid_get_all_pools_reserves",
     "fluid_get_pool_adjusted_reserves", "fluid_estimate_swap_in",
     "fluid_estimate_swap_out",
     "fluid_build_lending_deposit", "fluid_build_lending_deposit_native",
     "fluid_build_lending_withdraw", "fluid_build_lending_redeem",
     "fluid_build_token_approve",
     "fluid_build_vault_open", "fluid_build_vault_operate", "fluid_build_vault_close",
     "fluid_build_swap_exact_input", "fluid_build_swap_exact_output"}

\* C13: once start-up registration has run, every tool of the README's tool
\* reference is registered with the server, and no name is registered twice.
C13_ReadmeToolsRegistered ==
    server.phase \notin {"tools", "crashed"} =>
        /\ \A name \in ReadmeTools : name \in Range(server.tools)
        /\ \A a, b \in 1..Len(server.tools) :
              server.tools[a] = server.tools[b] => a = b

\* C14: the details object of the fluid://chains resource has an entry,
\* carrying the chain's chainId of CHAINS, for every name of its chains list
\* (SUPPORTED_CHAINS), and no entry for any other name.
C14_DetailsCoverChains ==
    \A i \in DOMAIN inv :
        (inv[i].tool = "fluid://chains" /\ inv[i].pc = "returned") =>
            LET json == inv[i].result.json
            IN  /\ json.chains = SUPPORTED_CHAINS
                /\ \A k \in 1..Len(json.chains) :
                      /\ json.chains[k] \in DOMAIN json.details
                      /\ Some(json.details[json.chains[k]].chainId)
                            = CHAINS[json.chains[k]].chainId
                /\ \A name \in DOMAIN json.details : name \in Range(json.chains)

\* the tools that build a transaction
WriteTools == Range(lendingWriteTools) \cup Range(vaultWriteTools) \cup Range(dexWriteTools)

TransactionFields == {"chain", "action", "to", "data", "value", "description"}

\* the address argument of a write tool: the contract its calldata is for
ContractArgument(v) ==
    IF v.tool \in Range(vaultWriteTools) THEN v.args.vault_address
    ELSE IF v.tool \in Range(dexWriteTools) THEN v.args.pool_address
    ELSE IF v.tool = "fluid_build_token_approve" THEN v.args.token_address
    ELSE v.args.ftoken_address

\* a decimal text as the encoding carries it
Canonical(text) == BigIntToString(StringToBigInt(text).value)

\* the calldata that encodes the arguments the response echoes (the arguments
\* of the invocation where the response echoes none)
EchoedCalldata(v) ==
    LET a == v.args
        j == v.result.json
        t == v.tool
    IN  CASE t = "fluid_build_lending_deposit" ->
               EncodeFunctionData("deposit", <<BigInt(a.amount), a.receiver>>)
          [] t = "fluid_build_lending_mint" ->
               EncodeFunctionData("mint", <<BigInt(a.shares), a.receiver>>)
          [] t = "fluid_build_lending_withdraw" ->
               EncodeFunctionData("withdraw", <<BigInt(a.amount), a.receiver, a.owner>>)
          [] t = "fluid_build_lending_redeem" ->
               EncodeFunctionData("redeem", <<BigInt(a.shares), a.receiver, a.owner>>)
          [] t = "fluid_build_lending_deposit_native" ->
               EncodeFunctionData("depositNative", <<a.receiver>>)
          [] t = "fluid_build_lending_withdraw_native" ->
               EncodeFunctionData("withdrawNative",
                                  <<BigInt(a.amount), a.receiver, a.owner>>)
          [] t = "fluid_build_token_approve" ->
               EncodeFunctionData("approve",
                   <<a.spender,
                     IF a.amount = Undefined \/ a.amount = Some("")
                     THEN MaxUint256.digits ELSE Canonical(a.amount[1])>>)
          [] t = "fluid_build_vault_t1_operate" ->
               EncodeFunctionData("operate",
                   <<ToString(j.nftId), Canonical(j.newCol), Canonical(j.newDebt),
                     j.receiver>>)
          [] t = "fluid_build_vault_t2_operate" ->
               EncodeFunctionData("operate",
                   <<ToString(j.nftId), Canonical(j.colToken0), Canonical(j.colToken1),
                     Canonical(j.colSharesMinMax.min), Canonical(j.colSharesMinMax.max),
                     Canonical(j.newDebt), j.receiver>>)
          [] t = "fluid_build_vault_t3_operate" ->
               EncodeFunctionData("operate",
                   <<ToString(j.nftId), Canonical(j.newCol), Canonical(j.debtToken0),
                     Canonical(j.debtToken1), Canonical(j.debtSharesMinMax.min),
                     Canonical(j.debtSharesMinMax.max), j.receiver>>)
          [] t = "fluid_build_vault_t4_operate" ->
               EncodeFunctionData("operate",
                   <<ToString(j.nftId), Canonical(j.colToken0), Canonical(j.colToken1),
                     Canonical(j.colSharesMinMax.min), Canonical(j.colSharesMinMax.max),
                     Canonical(j.debtToken0), Canonical(j.debtToken1),
                     Canonical(j.debtSharesMinMax.min), Canonical(j.debtSharesMinMax.max),
                     j.receiver>>)
          [] t = "fluid_build_swap_exact_input" ->
               EncodeFunctionData("swapIn",
                   <<j.direction = "token0 -> token1", BigInt(j.amountIn),
                     BigInt(j.amountOutMin), a.receiver>>)
          [] t = "fluid_build_swap_exact_output" ->
               EncodeFunctionData("swapOut",
                   <<j.direction = "token0 -> token1", BigInt(j.desiredAmountOut),
                     BigInt(j.amountInMax), a.receiver>>)

\* C12: every successful response of a write tool (lending, vault and DEX
\* builders) has the fields chain, action, to, data, value and description;
\* chain is the chain argument as given, to is the contract address argument
\* (fToken, token, vault or pool) and data is the calldata encoded from the
\* arguments the response echoes.
C12_UnsignedTransactionShape ==
    \A i \in DOMAIN inv :
        (inv[i].tool \in WriteTools /\ inv[i].result.ok) =>
            /\ TransactionFields \subseteq DOMAIN inv[i].result.json
            /\ inv[i].result.json.chain = inv[i].args.chain
            /\ inv[i].result.json.to = ContractArgument(inv[i])
            /\ inv[i].result.json.data = EchoedCalldata(inv[i])

\* an approval of an unlimited amount has been built
C12_Witness ==
    \E i \in DOMAIN inv :
        /\ inv[i].tool = "fluid_build_token_approve"
        /\ inv[i].result.ok
        /\ inv[i].args.amount = Undefined
        /\ inv[i].result.json.to = inv[i].args.token_address


SwapTools ==
    {"fluid_estimate_swap_in", "fluid_estimate_swap_out",
     "fluid_build_swap_exact_input", "fluid_build_swap_exact_output"}

EstimateMethods == {"estimateSwapIn", "estimateSwapOut"}

AdjustedReserves(r) ==
    <<r.colReserves0Adjusted, r.colReserves1Adjusted,
      r.debtReserves0Adjusted, r.debtReserves1Adjusted>>

\* C20: in the swap estimate and swap build tools the estimate call exists only
\* once getPoolReservesAdjusted has completed, and it carries exactly the four
\* adjusted reserves of that fetch; a response (estimate or calldata) exists
\* only once the estimate has returned; if either call failed, the invocation
\* returns no calldata and no estimate.
C20_ReservesThenEstimateThenEncode ==
    \A i \in DOMAIN inv :
        inv[i].tool \in SwapTools =>
            LET c == inv[i].calls
            IN  /\ Len(c) <= 2
                /\ Len(c) >= 1 => c[1].method = "getPoolReservesAdjusted"
                /\ Len(c) = 2 =>
                      /\ c[2].method \in EstimateMethods
                      /\ c[1].status = "ok"
                      /\ SubSeq(c[2].args, 4, 7) = AdjustedReserves(c[1].value[1])
                      /\ Len(c[2].args) = 7
                /\ inv[i].result.json # NoJson =>
                      /\ Len(c) = 2
                      /\ c[2].status = "ok"
                /\ AnyCallFailed(i) =>
                      /\ inv[i].result.json = NoJson
                      /\ inv[i].pc = "failed"

\* an estimate and a built swap that went through both calls
C20_Witness ==
    \E i \in DOMAIN inv :
        /\ inv[i].tool \in {"fluid_estimate_swap_in", "fluid_build_swap_exact_output"}
        /\ inv[i].pc = "returned"
        /\ Len(inv[i].calls) = 2
        /\ inv[i].calls[1].value[1].debtReserves0Adjusted > 0


\* every tool the tool groups define
AllTools ==
    Range(liquidityReadTools) \cup Range(lendingReadTools) \cup Range(vaultReadTools)
        \cup Range(dexReadTools) \cup WriteTools

StartsWith(text, prefix) ==
    Len(text) >= Len(prefix) /\ SubSeq(text, 1, Len(prefix)) = prefix

\* C18: an invocation of any tool with a chain argument that getChainConfig
\* rejects fails with the 'Unsupported chain' error in the step that starts it:
\* no provider is constructed, no contract call is issued, and the provider
\* cache is left as it was.
C18_RejectedChainStep ==
    [][\A i \in DOMAIN inv :
          (/\ inv[i].pc = "idle"
           /\ inv'[i].pc # "idle"
           /\ inv'[i].tool \in AllTools
           /\ getChainConfig(inv'[i].args.chain).threw) =>
              /\ inv'[i].pc = "failed"
              /\ StartsWith(inv'[i].result.message, "Unsupported chain")
              /\ inv'[i].calls = <<>>
              /\ inv'[i].provider = NoProvider
              /\ constructed' = constructed
              /\ providerCache' = providerCache]_vars

\* an invocation with a rejected chain has failed
C18_Witness ==
    \E i \in DOMAIN inv :
        /\ inv[i].tool \in AllTools
        /\ getChainConfig(inv[i].args.chain).threw
        /\ inv[i].pc = "failed"
        /\ inv[i].calls = <<>>


\* the same request: the same contract, method and arguments
SameCall(a, b) == a.to = b.to /\ a.method = b.method /\ a.args = b.args

\* C19: no retry: a step of an invocation issues no contract call that repeats
\* a call of the invocation that has failed, and an invocation that has
\* returned its result or its failure issues no contract call at all.
C19_NoRetryStep ==
    [][\A i \in DOMAIN inv :
          LET before == inv[i].calls
              after  == inv'[i].calls
          IN  /\ Len(after) >= Len(before)
              /\ \A j \in 1..Len(before) : SameCall(after[j], before[j])
              /\ Completed(i) => after = before
              /\ \A k \in (Len(before) + 1)..Len(after) :
                    \A j \in 1..Len(before) :
                        after[j].status = "failed" => ~SameCall(after[j], after[k])]_vars

\* an estimate whose second call failed, and a vault listing that went on
\* after a failed getVaultType
C19_Witness ==
    \E i \in DOMAIN inv :
        /\ inv[i].tool \in {"fluid_estimate_swap_in", "fluid_get_all_vaults"}
        /\ Completed(i)
        /\ AnyCallFailed(i)
        /\ Len(inv[i].calls) >= 2


\* argument names under which a tool would take a key
KeyParameters == {"private_key", "privateKey", "mnemonic", "seed_phrase", "signer"}

\* response fields a signed or sent transaction would carry
SignedFields == {"signature", "signedTransaction", "rawTransaction", "hash", "transactionHash"}

\* C11: write tools are non-custodial: in every reachable state no invocation
\* holds a signer (getSigner is never invoked), every contract interaction of
\* a handler is a read-only call, no tool takes a private key among its
\* arguments, and no response carries a signed or sent transaction.
C11_NonCustodial ==
    \A i \in DOMAIN inv :
        /\ inv[i].signer = Undefined
        /\ \A k \in 1..Len(inv[i].calls) :
              /\ inv[i].calls[k].kind = "call"
              /\ inv[i].calls[k].method \notin NonViewFunctions
        /\ DOMAIN inv[i].args \cap KeyParameters = {}
        /\ inv[i].result.ok => DOMAIN inv[i].result.json \cap SignedFields = {}

\* a builder has returned its unsigned transaction after a preview call
C11_Witness ==
    \E i \in DOMAIN inv :
        /\ inv[i].tool \in WriteTools
        /\ inv[i].pc = "returned"
        /\ "data" \in DOMAIN inv[i].result.json
        /\ Len(inv[i].calls) >= 1
        /\ inv[i].calls[1].status = "ok"



(***************************************************************************)
(* Properties of the transaction value and of the encoded amounts          *)
(***************************************************************************)
\* a decimal text cut from the right into groups of four digits, each group
\* taken as a number: the text's value in base 10000
GroupsOfFour(text) ==
    LET n    == Len(text)
        m    == (n + 3) \div 4
        d(i) == IF i >= 1 THEN DigitValue(CharAt(text, i)) ELSE 0
    IN  [j \in 1..m |->
            LET e == n - 4 * (m - j)
            IN  1000 * d(e - 3) + 100 * d(e - 2) + 10 * d(e - 1) + d(e)]

\* factor times the number written by the first k groups, plus carry
RECURSIVE TimesFrom(_, _, _, _)
TimesFrom(groups, k, factor, carry) ==
    IF k = 0
    THEN IF carry = 0 THEN <<>>
         ELSE IF carry < 10000 THEN <<carry>>
         ELSE <<carry \div 10000, carry % 10000>>
    ELSE LET d == factor * groups[k] + carry
         IN  TimesFrom(groups, k - 1, factor, d \div 10000) \o <<d % 10000>>

\* 2^(15 * k) in base 10000; each power is worked out before the next begins
RECURSIVE PowerOfTwoGroups(_)
PowerOfTwoGroups(k) ==
    IF k = 0 THEN <<1>>
    ELSE LET rest == PowerOfTwoGroups(k - 1)
         IN  IF Len(rest) = 0 THEN rest ELSE TimesFrom(rest, Len(rest), 32768, 0)

\* text is the decimal numeral of -2^255, 255 being 15 * 17
IsMinInt256(text) ==
    /\ Len(text) > 1
    /\ CharAt(text, 1) = "-"
    /\ CharAt(text, 2) # "0"
    /\ IsDigits(SubSeq(text, 2, Len(text)))
    /\ GroupsOfFour(SubSeq(text, 2, Len(text))) = PowerOfTwoGroups(17)

\* encoded is the integer a new_col or new_debt argument stands for
EncodesArgument(encoded, text) ==
    IF text = "INT256_MIN" THEN IsMinInt256(encoded) ELSE encoded = text

\* a decimal argument above zero
DenotesPositive(text) ==
    /\ text # "INT256_MIN"
    /\ text # ""
    /\ CharAt(text, 1) # "-"
    /\ \E k \in 1..Len(text) : CharAt(text, k) \in {"1", "2", "3", "4", "5", "6", "7", "8", "9"}

\* C23: fluid_build_vault_t1_operate encodes the literal "INT256_MIN" as
\* -2^255 and every other new_col / new_debt as the integer it denotes; value
\* is new_col exactly when new_col is an integer above zero and "0" otherwise,
\* whatever new_debt is.
C23_VaultT1Encoding ==
    \A i \in DOMAIN inv :
        (inv[i].tool = "fluid_build_vault_t1_operate" /\ inv[i].result.ok) =>
            LET args == inv[i].args
                json == inv[i].result.json
            IN  /\ json.data.function = "operate"
                /\ EncodesArgument(json.data.values[2], args.new_col)
                /\ EncodesArgument(json.data.values[3], args.new_debt)
                /\ json.value = IF DenotesPositive(args.new_col)
                                THEN args.new_col ELSE "0"

\* closing a position: both literals given
C23_Witness ==
    \E i \in DOMAIN inv :
        /\ inv[i].tool = "fluid_build_vault_t1_operate"
        /\ inv[i].result.ok
        /\ inv[i].args.new_col = "INT256_MIN"
        /\ inv[i].args.new_debt = "INT256_MIN"
        /\ inv[i].result.json.data.values[2] = INT256_MIN
        /\ inv[i].result.json.value = "0"

\* the builders whose transaction carries no ether
ZeroValueBuilders ==
    {"fluid_build_lending_deposit", "fluid_build_lending_mint",
     "fluid_build_lending_withdraw", "fluid_build_lending_redeem",
     "fluid_build_lending_withdraw_native", "fluid_build_token_approve",
     "fluid_build_vault_t2_operate", "fluid_build_vault_t3_operate",
     "fluid_build_vault_t4_operate"}

\* C24: value is the amount argument for fluid_build_lending_deposit_native
\* and "0" for deposit, mint, withdraw, redeem, withdraw_native, token_approve
\* and the T2, T3 and T4 operate builders, whatever the arguments.
C24_BuilderValue ==
    \A i \in DOMAIN inv :
        inv[i].result.ok =>
            /\ inv[i].tool = "fluid_build_lending_deposit_native" =>
                   inv[i].result.json.value = inv[i].args.amount
            /\ inv[i].tool \in ZeroValueBuilders =>
                   inv[i].result.json.value = "0"

\* a native deposit of 1000 wei
C24_Witness ==
    \E i \in DOMAIN inv :
        /\ inv[i].tool = "fluid_build_lending_deposit_native"
        /\ inv[i].result.ok
        /\ inv[i].args.amount = "1000"
        /\ inv[i].result.json.value = "1000"

\* the amount an approve calldata carries
ApprovedAmount(v) == v.result.json.data.values[2]

\* the description of an approval without limit
UnlimitedDescription(args) ==
    "Approve " \o args.spender \o " to spend unlimited of token " \o args.token_address

\* C25: fluid_build_token_approve encodes exactly the amount supplied whenever
\* an amount is supplied, encodes 2^256 - 1 only when the amount is omitted,
\* and says 'unlimited' exactly when 2^256 - 1 is encoded.
C25_ApproveAmount ==
    \A i \in DOMAIN inv :
        (inv[i].tool = "fluid_build_token_approve" /\ inv[i].result.ok) =>
            LET args == inv[i].args
                json == inv[i].result.json
            IN  /\ json.data.function = "approve"
                /\ json.data.values[1] = args.spender
                /\ args.amount # Undefined =>
                       ApprovedAmount(inv[i])
                           = BigIntToString(StringToBigInt(args.amount[1]).value)
                /\ ApprovedAmount(inv[i]) = BigIntToString(MaxUint256) =>
                       args.amount = Undefined
                /\ json.description = UnlimitedDescription(args)
                       <=> ApprovedAmount(inv[i]) = BigIntToString(MaxUint256)

\* the lending builders that ask the fToken for a preview: the call they
\* await, the field that reports it, and the calldata of their arguments
PreviewBuilders ==
    {"fluid_build_lending_deposit", "fluid_build_lending_mint",
     "fluid_build_lending_withdraw", "fluid_build_lending_redeem"}

PreviewCall(tool) ==
    CASE tool = "fluid_build_lending_deposit"  -> "previewDeposit"
      [] tool = "fluid_build_lending_mint"     -> "previewMint"
      [] tool = "fluid_build_lending_withdraw" -> "previewWithdraw"
      [] tool = "fluid_build_lending_redeem"   -> "previewRedeem"

PreviewField(tool) ==
    CASE tool = "fluid_build_lending_deposit"  -> "previewSharesReceived"
      [] tool = "fluid_build_lending_mint"     -> "previewAssetsNeeded"
      [] tool = "fluid_build_lending_withdraw" -> "previewSharesBurned"
      [] tool = "fluid_build_lending_redeem"   -> "previewAssetsReceived"

LendingCalldata(tool, args) ==
    CASE tool = "fluid_build_lending_deposit"  ->
            [function |-> "deposit", values |-> <<BigInt(args.amount), args.receiver>>]
      [] tool = "fluid_build_lending_mint"     ->
            [function |-> "mint", values |-> <<BigInt(args.shares), args.receiver>>]
      [] tool = "fluid_build_lending_withdraw" ->
            [function |-> "withdraw",
             values |-> <<BigInt(args.amount), args.receiver, args.owner>>]
      [] tool = "fluid_build_lending_redeem"   ->
            [function |-> "redeem",
             values |-> <<BigInt(args.shares), args.receiver, args.owner>>]

\* an invocation waiting for its preview call
AwaitsPreview(v) == v.tool \in PreviewBuilders /\ v.pc = PreviewCall(v.tool)

\* C26: fluid_build_lending_deposit, _mint, _withdraw and _redeem have their
\* calldata encoded while the preview call is still out; when the call
\* settles, failed or not, the tool returns that calldata with to = the fToken
\* and value "0"; the preview field is "0" after a failure and the decimal
\* text of the returned amount after a success.
C26_PreviewStep ==
    [][\A i \in DOMAIN inv :
          (AwaitsPreview(inv[i]) /\ inv'[i] # inv[i]) =>
              LET call == inv'[i].calls[1]
                  json == inv'[i].result.json
              IN  /\ inv[i].locals.txData = LendingCalldata(inv[i].tool, inv[i].args)
                  /\ call.status \in {"ok", "failed"}
                  /\ inv'[i].pc = "returned" /\ inv'[i].result.ok
                  /\ json.to = inv[i].args.ftoken_address
                  /\ json.data = inv[i].locals.txData
                  /\ json.value = "0"
                  /\ json[PreviewField(inv[i].tool)] =
                         IF call.status = "ok" THEN ToString(call.value[1]) ELSE "0"]_vars

\* a withdrawal returned after its preview call was rejected
C26_Witness ==
    \E i \in DOMAIN inv :
        /\ inv[i].pc = "returned" /\ inv[i].result.ok
        /\ inv[i].tool = "fluid_build_lending_withdraw"
        /\ inv[i].calls[1].status = "failed"
        /\ inv[i].result.json.data.function = "withdraw"
        /\ inv[i].result.json.previewSharesBurned = "0"

====
